---- MODULE Spec2Model ----
(***************************************************************************)
(* A model of the DecentralChain Ledger client: the DCC protocol engine    *)
(* (APDU construction, firmware dependent signing layout, chunked signing, *)
(* version cache) and the DCCLedger session manager (connect, disconnect,  *)
(* reconnect, delegated operations).                                       *)
(*                                                                         *)
(* Bytes are integers 0..255 and byte arrays are sequences of them.        *)
(* Strings that the code builds character by character are TLA+ strings    *)
(* built with \o; strings that the code parses (derivation paths) are      *)
(* sequences of one-character strings.                                     *)
(***************************************************************************)
EXTENDS Integers, Sequences, FiniteSets, TLC

(***************************************************************************)
(* DCC_CONFIG                                                              *)
(***************************************************************************)
SW_OK == 36864
PUBLIC_KEY_LENGTH == 32
ADDRESS_LENGTH == 35
STATUS_LENGTH == 2
SIGNED_CODES_ORDER == 252
SIGNED_CODES_SOME_DATA == 253
SIGNED_CODES_REQUEST == 254
SIGNED_CODES_MESSAGE == 255
MAX_SIZE == 128
DCC_PRECISION == 8
MAIN_NET_CODE == 76

(***************************************************************************)
(* Values thrown and returned.  An error is a record of the same shape     *)
(* whatever its class; cause is the empty sequence or holds one value.     *)
(***************************************************************************)
NoCause == <<>>
MkError(type, message, cause) ==
  [type |-> type, message |-> message, cause |-> cause]

\* The result of a call that has returned v.
Ok(v) == [ok |-> TRUE, val |-> v, err |-> <<>>]
\* The result of a call that has thrown e.
Fail(e) == [ok |-> FALSE, val |-> <<>>, err |-> <<e>>]
\* A call that has not finished.
Pending == [ok |-> FALSE, val |-> <<>>, err |-> <<>>]

\* An optional field: undefined, or a value.
Undefined == <<>>
Some(v) == <<v>>
\* x ?? d
OrElse(x, d) == IF x = Undefined THEN d ELSE x[1]

(***************************************************************************)
(* Number formatting: String(n) and n.toString(16).padStart(w, '0')        *)
(***************************************************************************)
DecDigit == <<"0", "1", "2", "3", "4", "5", "6", "7", "8", "9">>
HexDigit == <<"0", "1", "2", "3", "4", "5", "6", "7", "8", "9",
              "a", "b", "c", "d", "e", "f">>

RECURSIVE NatToString(_)
NatToString(n) ==
  IF n < 10 THEN DecDigit[n + 1]
  ELSE NatToString(n \div 10) \o DecDigit[(n % 10) + 1]

\* String(n) for an integer n
NumToString(n) == IF n < 0 THEN "-" \o NatToString(0 - n) ELSE NatToString(n)

RECURSIVE NatToHex(_)
NatToHex(n) ==
  IF n < 16 THEN HexDigit[n + 1]
  ELSE NatToHex(n \div 16) \o HexDigit[(n % 16) + 1]

RECURSIVE PadStart(_, _)
PadStart(s, w) == IF Len(s) >= w THEN s ELSE PadStart("0" \o s, w)

(***************************************************************************)
(* utils.ts                                                                *)
(***************************************************************************)
ALPHABET ==
  << "1", "2", "3", "4", "5", "6", "7", "8", "9", "A", "B", "C", "D", "E",
     "F", "G", "H", "J", "K", "L", "M", "N", "P", "Q", "R", "S", "T", "U",
     "V", "W", "X", "Y", "Z", "a", "b", "c", "d", "e", "f", "g", "h", "i",
     "j", "k", "m", "n", "o", "p", "q", "r", "s", "t", "u", "v", "w", "x",
     "y", "z" >>

\* The two inner loops of base58Encode after one byte has been shifted in:
\* propagate the carry through digits[k..], then push the remaining carry.
RECURSIVE Base58Carry(_, _, _)
Base58Carry(digits, k, carry) ==
  IF k <= Len(digits)
  THEN LET val == digits[k] + carry
       IN Base58Carry([digits EXCEPT ![k] = val % 58], k + 1, val \div 58)
  ELSE IF carry # 0
       THEN Base58Carry(Append(digits, carry % 58), k + 1, carry \div 58)
       ELSE digits

\* One iteration of the loop over the bytes of the buffer.
Base58Byte(digits, byte) ==
  LET shifted == [j \in 1..Len(digits) |->
                    IF j = 1 THEN digits[j] * 256 + byte ELSE digits[j] * 256]
  IN Base58Carry(shifted, 1, 0)

RECURSIVE Base58Digits(_, _, _)
Base58Digits(buffer, i, digits) ==
  IF i > Len(buffer) THEN digits
  ELSE LET next == Base58Byte(digits, buffer[i])
       IN \* the test makes the digits of this byte known before the next byte
          IF Len(next) >= 0 THEN Base58Digits(buffer, i + 1, next) ELSE next

\* The loop over the leading zero bytes running up to the last byte.
RECURSIVE Base58LeadingZerosToEnd(_, _, _)
Base58LeadingZerosToEnd(buffer, i, digits) ==
  IF i < Len(buffer) /\ buffer[i + 1] = 0
  THEN Base58LeadingZerosToEnd(buffer, i + 1, Append(digits, 0))
  ELSE digits

\* for (i = 0; buffer[i] === 0 && i < buffer.length - 1; i++) digits.push(0)
RECURSIVE Base58LeadingZeros(_, _, _)
Base58LeadingZeros(buffer, i, digits) ==
  IF i < Len(buffer) - 1 /\ buffer[i + 1] = 0
  THEN Base58LeadingZeros(buffer, i + 1, Append(digits, 0))
  ELSE digits

\* digits.reverse().map(d => ALPHABET[d]).join('')
RECURSIVE Base58Join(_, _)
Base58Join(digits, k) ==
  IF k = 0 THEN "" ELSE ALPHABET[digits[k] + 1] \o Base58Join(digits, k - 1)

base58Encode(buffer) ==
  IF Len(buffer) = 0 THEN ""
  ELSE LET digits == Base58LeadingZeros(buffer, 0,
                                        Base58Digits(buffer, 1, <<0>>))
       IN Base58Join(digits, Len(digits))

RECURSIVE concatBytes(_)
concatBytes(arrays) ==
  IF arrays = <<>> THEN <<>> ELSE Head(arrays) \o concatBytes(Tail(arrays))

\* uint32ToBytesBE: the model calls it with byte lengths only, which are far
\* below the upper limit 0xFFFFFFFF of the range check.
uint32ToBytesBE(value) ==
  IF value < 0
  THEN Fail(MkError("RangeError",
                    "uint32ToBytesBE: value must be an integer in [0, 4294967295], got "
                      \o NumToString(value), NoCause))
  ELSE Ok(<< value \div 16777216, (value \div 65536) % 256,
             (value \div 256) % 256, value % 256 >>)

RECURSIVE bytesToHex(_)
bytesToHex(bytes) ==
  IF bytes = <<>> THEN ""
  ELSE PadStart(NatToHex(Head(bytes)), 2) \o bytesToHex(Tail(bytes))

\* buffer.slice(from, to) with 0 <= from <= to
Slice(s, from, to) ==
  SubSeq(s, from + 1, IF to > Len(s) THEN Len(s) ELSE to)
\* s.slice(-n)
SliceLast(s, n) == SubSeq(s, (IF Len(s) > n THEN Len(s) - n ELSE 0) + 1, Len(s))
\* s.slice(0, -n)
SliceDropLast(s, n) == SubSeq(s, 1, IF Len(s) > n THEN Len(s) - n ELSE 0)

(***************************************************************************)
(* DCC.checkError and the status table                                     *)
(***************************************************************************)
STATUS_CODES ==
  { 36864, 37120, 37122, 37123, 37124, 37125, 37126,
    27010, 27013, 27014, 27024, 27270, 27904, 28160 }

STATUS_MESSAGES(code) ==
  CASE code = 36864 -> "OK"
    [] code = 37120 -> "User cancelled"
    [] code = 37122 -> "Deprecated sign protocol"
    [] code = 37123 -> "Incorrect precision value"
    [] code = 37124 -> "Incorrect transaction type/version"
    [] code = 37125 -> "Protobuf decoding failed"
    [] code = 37126 -> "Byte decoding failed"
    [] code = 27010 -> "Security status not satisfied"
    [] code = 27013 -> "Conditions not satisfied"
    [] code = 27014 -> "Device is locked"
    [] code = 27024 -> "Buffer overflow"
    [] code = 27270 -> "Incorrect P1/P2"
    [] code = 27904 -> "Instruction not supported"
    [] code = 28160 -> "CLA not supported"

\* checkError whose generated message is not padded to four digits.
checkErrorNoPadding(data) ==
  LET high == IF Len(data) >= 1 THEN data[1] ELSE 0
      low == IF Len(data) >= 2 THEN data[2] ELSE 0
      statusCode == high * 256 + low
      message == IF statusCode \in STATUS_CODES
                 THEN STATUS_MESSAGES(statusCode)
                 ELSE "Unknown error (0x" \o NatToHex(statusCode) \o ")"
  IN IF statusCode = SW_OK THEN <<>>
     ELSE << [error |-> message, status |-> statusCode] >>

\* The LedgerError of a status word, or the empty sequence for null.
checkError(data) ==
  LET high == IF Len(data) >= 1 THEN data[1] ELSE 0
      low == IF Len(data) >= 2 THEN data[2] ELSE 0
      statusCode == high * 256 + low
      message == IF statusCode \in STATUS_CODES
                 THEN STATUS_MESSAGES(statusCode)
                 ELSE "Unknown error (0x" \o PadStart(NatToHex(statusCode), 4) \o ")"
  IN IF statusCode = SW_OK THEN <<>>
     ELSE << [error |-> message, status |-> statusCode] >>

\* new Error(isError.error): the error without its cause.
StatusErrorNoCause(isError) == MkError("Error", isError.error, NoCause)

\* new Error(isError.error, { cause: isError })
StatusError(isError) == MkError("Error", isError.error, <<isError>>)

\* String.fromCharCode for the printable ASCII range 0x20..0x7E; the device
\* replies of the model hold no control characters and no grave accent (0x60),
\* which a TLA+ string cannot hold: "?" stands at its place in the table.
ASCII_PRINTABLE ==
  << " ", "!", "\"", "#", "$", "%", "&", "'", "(", ")", "*", "+", ",", "-",
     ".", "/", "0", "1", "2", "3", "4", "5", "6", "7", "8", "9", ":", ";",
     "<", "=", ">", "?", "@", "A", "B", "C", "D", "E", "F", "G", "H", "I",
     "J", "K", "L", "M", "N", "O", "P", "Q", "R", "S", "T", "U", "V", "W",
     "X", "Y", "Z", "[", "\\", "]", "^", "_", "?", "a", "b", "c", "d", "e",
     "f", "g", "h", "i", "j", "k", "l", "m", "n", "o", "p", "q", "r", "s",
     "t", "u", "v", "w", "x", "y", "z", "{", "|", "}", "~" >>

RECURSIVE FromCharCodes(_)
FromCharCodes(bytes) ==
  IF bytes = <<>> THEN ""
  ELSE ASCII_PRINTABLE[Head(bytes) - 31] \o FromCharCodes(Tail(bytes))

\* The index (from 1) of the first byte above 0x7F, or 0.
RECURSIVE FirstNonAscii(_, _)
FirstNonAscii(bytes, i) ==
  IF i > Len(bytes) THEN 0
  ELSE IF bytes[i] > 127 THEN i ELSE FirstNonAscii(bytes, i + 1)

bytesToAscii(bytes) ==
  LET i == FirstNonAscii(bytes, 1)
  IN IF i # 0
     THEN Fail(MkError("RangeError",
                       "bytesToAscii: non-ASCII byte 0x"
                         \o PadStart(NatToHex(bytes[i]), 2)
                         \o " at index " \o NumToString(i - 1), NoCause))
     ELSE Ok(FromCharCodes(bytes))

(***************************************************************************)
(* assertUint8.  The numbers of the model are integers.                    *)
(***************************************************************************)
assertUint8(name, value) ==
  IF value < 0 \/ value > 255
  THEN <<MkError("RangeError",
                 name \o " must be an integer in [0, 255], got "
                   \o NumToString(value), NoCause)>>
  ELSE <<>>

(***************************************************************************)
(* DCC.splitPath.  A path is a sequence of one-character strings.          *)
(***************************************************************************)
DIGIT_CHARS == {"0", "1", "2", "3", "4", "5", "6", "7", "8", "9"}
DigitValue(c) == CHOOSE d \in 0..9 : DecDigit[d + 1] = c

RECURSIVE JoinChars(_)
JoinChars(chars) ==
  IF chars = <<>> THEN "" ELSE Head(chars) \o JoinChars(Tail(chars))

\* path.split('/'): the elements between the separators, empty ones included.
RECURSIVE Split(_, _)
Split(chars, current) ==
  IF chars = <<>> THEN <<current>>
  ELSE IF Head(chars) = "/"
       THEN <<current>> \o Split(Tail(chars), <<>>)
       ELSE Split(Tail(chars), Append(current, Head(chars)))

RECURSIVE SkipSpaces(_)
SkipSpaces(chars) ==
  IF chars # <<>> /\ Head(chars) = " " THEN SkipSpaces(Tail(chars)) ELSE chars

RECURSIVE DigitPrefix(_)
DigitPrefix(chars) ==
  IF chars # <<>> /\ Head(chars) \in DIGIT_CHARS
  THEN <<Head(chars)>> \o DigitPrefix(Tail(chars))
  ELSE <<>>

RECURSIVE StripZeros(_)
StripZeros(digits) ==
  IF Len(digits) > 1 /\ Head(digits) = "0" THEN StripZeros(Tail(digits))
  ELSE digits

\* parseInt(raw, 10): leading white space, an optional sign, then the longest
\* run of digits; NaN when there is none.  The number is kept as its sign and
\* its digits without leading zeros, since it may exceed what fits an integer
\* of the model.
parseInt(raw) ==
  LET s == SkipSpaces(raw)
      signed == s # <<>> /\ Head(s) \in {"+", "-"}
      digits == DigitPrefix(IF signed THEN Tail(s) ELSE s)
  IN [nan |-> digits = <<>>,
      neg |-> signed /\ Head(s) = "-",
      digits |-> StripZeros(digits)]

NumIsZero(num) == num.digits = <<"0">>
\* num < 0
NumIsNegative(num) == num.neg /\ ~NumIsZero(num)
\* String(num), as characters; exact for the tokens of up to 15 digits the
\* model parses (String(-0) is "0").
NumChars(num) == (IF NumIsNegative(num) THEN <<"-">> ELSE <<>>) \o num.digits

RECURSIVE DigitsValue(_, _)
DigitsValue(digits, acc) ==
  IF digits = <<>> THEN acc
  ELSE DigitsValue(Tail(digits), acc * 10 + DigitValue(Head(digits)))

\* num > 0x7fffffff, for a non-negative num
NumExceedsInt31(num) ==
  \/ Len(num.digits) > 10
  \/ /\ Len(num.digits) = 10
     /\ LET high == DigitsValue(SubSeq(num.digits, 1, 9), 0)
            last == DigitValue(num.digits[10])
        IN high > 214748364 \/ (high = 214748364 /\ last > 7)

\* The value of a num that does not exceed 0x7fffffff.
NumValue(num) == DigitsValue(num.digits, 0)

\* The value written with the low byte first: setUint32(4 * index, value, true)
PathComponentBytesLittleEndian(n, hardened) ==
  << n % 256, (n \div 256) % 256, (n \div 65536) % 256,
     (n \div 16777216) + (IF hardened THEN 128 ELSE 0) >>

\* setUint32(4 * index, value, false) of num + 0x80000000 (hardened) or num
PathComponentBytes(n, hardened) ==
  << (n \div 16777216) + (IF hardened THEN 128 ELSE 0),
     (n \div 65536) % 256, (n \div 256) % 256, n % 256 >>

\* The loop of splitPath over the elements from index i on; result holds the
\* bytes of the components accepted so far and count their number.
RECURSIVE SplitPathLoop(_, _, _, _)
SplitPathLoop(elements, i, result, count) ==
  IF i > Len(elements)
  THEN IF count = 0
       THEN Fail(MkError("Error",
                         "BIP-44 path must contain at least one component",
                         NoCause))
       ELSE Ok(result)
  ELSE LET element == elements[i]
           hardened == element # <<>> /\ element[Len(element)] = "'"
           raw == IF hardened THEN SubSeq(element, 1, Len(element) - 1)
                  ELSE element
           num == parseInt(raw)
       IN IF element = <<"m">>
          THEN SplitPathLoop(elements, i + 1, result, count)
          ELSE IF num.nan \/ NumIsNegative(num) \/ NumChars(num) # raw
          THEN Fail(MkError("Error",
                            "Invalid BIP-44 path component \""
                              \o JoinChars(element) \o "\" - "
                              \o "each segment must be a non-negative integer optionally followed by '",
                            NoCause))
          ELSE IF NumExceedsInt31(num)
          THEN Fail(MkError("RangeError",
                            "BIP-44 path index " \o JoinChars(NumChars(num))
                              \o " exceeds maximum (2147483647)", NoCause))
          ELSE SplitPathLoop(elements, i + 1,
                             result \o PathComponentBytes(NumValue(num), hardened),
                             count + 1)

splitPath(path) == SplitPathLoop(Split(path, <<>>), 1, <<>>, 0)

(***************************************************************************)
(* Bounds of the model                                                     *)
(***************************************************************************)
\* The longest payload handed to _signData directly.
MaxBufLen == 250
\* The transports the factory hands out, which are also the DCC engines.
MaxTransports == 3
\* The callers of operations.
MaxCalls == 2

\* The tryConnect() and disconnect() calls of one behaviour.
MaxConnects == 3
\* The callers of DCCLedger operations.
MaxUsers == 1

EngIds == 1..MaxTransports
Calls == 1..MaxCalls
ConnIds == 1..MaxConnects
Users == 1..MaxUsers

(***************************************************************************)
(* The device and the transport are collaborators: what they answer is     *)
(* drawn from these sets.                                                  *)
(***************************************************************************)
\* transport.send rejects
TransportErrors == { MkError("Error", "Device disconnected", NoCause) }
\* answers to a signing chunk: a signature, no signature, a known and an
\* unknown status word, a single byte, nothing
ChunkReplies ==
  { <<7, 9, 144, 0>>, <<144, 0>>, <<105, 133>>, <<1, 2>>, <<144>>, <<>> }
\* answers to the version query
VersionReplies ==
  { <<1, 2, 0, 144, 0>>, <<1, 1, 3, 144, 0>>, <<1, 0, 9, 144, 0>>,
    <<1, 0, 0, 105, 133>>, <<144, 0>>, <<144>>, <<>> }

(***************************************************************************)
(* State                                                                   *)
(***************************************************************************)
VARIABLES
  version,         \* DCC._version of each engine: empty, in flight, or the answer
  networkCode,     \* DCC.networkCode of each engine
  ecall,           \* the call each caller has running on an engine
  options,         \* DCCLedger: the options given to the constructor
  ready,           \* DCCLedger.ready
  dccLibPromise,   \* DCCLedger._dccLibPromise: 0 (null) or the transport it wraps
  initTransportPromise, \* DCCLedger._initTransportPromise: 0 (null) or a transport
  lastError,       \* DCCLedger._error: empty (null) or the error
  transport,       \* the transports the factory was asked for
  conn,            \* the running and finished tryConnect() and disconnect() calls
  lcall            \* the DCCLedger operation each caller has running

engineVars == <<version, networkCode, ecall>>
ledgerVars == <<options, ready, dccLibPromise, initTransportPromise, lastError,
                transport, conn, lcall>>
vars == <<version, networkCode, ecall, options, ready, dccLibPromise,
          initTransportPromise, lastError, transport, conn, lcall>>

VersionNull == [st |-> "null", val |-> <<>>]
VersionPending == [st |-> "pending", val |-> <<>>]
VersionResolved(bytes) == [st |-> "resolved", val |-> bytes]
\* The query has settled with a failure (a rejection, or an answer with an
\* error status) and the calls that await it have not resumed yet.
VersionFailed(settled) == [st |-> "failed", val |-> settled]

\* A signing payload with nothing set.
NoData ==
  [dataBuffer |-> <<>>, dataType |-> 0, dataVersion |-> 0,
   amountPrecision |-> Undefined, amount2Precision |-> Undefined,
   feePrecision |-> Undefined]

\* No call running.  given: the payload as the caller passed it; sData: the
\* payload the method hands to _fillDataForSign; components: the components
\* a caller of splitPath wrote its path from; code: the networkCode handed to
\* a constructor, empty when it is left out; settled: the outcome of the
\* settled version query a call awaits; awaits: the caller whose version
\* query a call awaits after this._version has let go of it, else 0.
IdleCall ==
  [op |-> "none", pc |-> "idle", eng |-> 0, path |-> <<>>, sData |-> NoData,
   given |-> NoData, components |-> <<>>, code |-> <<>>,
   verify |-> FALSE, dataBuffer |-> <<>>, sendBytes |-> 0, result |-> <<>>,
   sent |-> <<>>, acks |-> <<>>, entry |-> "none", settled |-> Pending,
   awaits |-> 0, out |-> Pending]

\* One exchange: transport.send(cla, ins, p1, p2, data)
Apdu(ins, p1, p2, data) ==
  [cla |-> 128, ins |-> ins, p1 |-> p1, p2 |-> p2, data |-> data]

(***************************************************************************)
(* DCCLedger: the values of its state                                      *)
(***************************************************************************)
\* A transport the factory has not been asked for.  st: none, pending (create
\* is running), open, failed; close: no, called, done (close() has settled);
\* timeouts: the arguments of the setExchangeTimeout calls; tpHandled and
\* libHandled: a rejection handler is attached to the _initTransportPromise
\* and to the _dccLibPromise made for this transport.
NoTransport ==
  [st |-> "none", err |-> <<>>, close |-> "no", timeouts |-> <<>>,
   tpHandled |-> FALSE, libHandled |-> FALSE]

\* An open transport nobody has configured or closed.
OpenTransport == [NoTransport EXCEPT !.st = "open"]

\* No tryConnect() or disconnect() call.  tp: the transportPromise disconnect
\* took from the session; own: the transport this call asked the factory for;
\* handled: a rejection handler is attached to the promise the call returned.
IdleConn ==
  [kind |-> "none", pc |-> "none", origin |-> "none", tp |-> 0, own |-> 0,
   handled |-> FALSE, out |-> Pending]

\* A number handed to DCCLedger: an integer of 31 bits (kind int), an integer
\* above 0x7fffffff (big), a fraction (frac), NaN (nan) or Infinity (inf).
Num(v) == [kind |-> "int", val |-> v]
NotANumber == [kind |-> "nan", val |-> 0]
OneAndAHalf == [kind |-> "frac", val |-> 1]
TwoToThe31 == [kind |-> "big", val |-> 0]
PositiveInfinity == [kind |-> "inf", val |-> 0]

\* Number.isInteger(n)
IsInteger(n) == n.kind \in {"int", "big"}

\* String(n)
NumText(n) ==
  CASE n.kind = "int" -> NumToString(n.val)
    [] n.kind = "big" -> "2147483648"
    [] n.kind = "frac" -> NumToString(n.val) \o ".5"
    [] n.kind = "nan" -> "NaN"
    [] n.kind = "inf" -> "Infinity"

\* No DCCLedger operation running.  outer: the operation that called
\* getUserDataById (none, getPaginationUsersData, probeDevice); lib: the
\* _dccLibPromise the call awaits; conn: the tryConnect or disconnect it
\* awaits; cause: the error getTransport caught; caught: the error on its way
\* to the outer catch; code: the networkCode handed to the constructor.
IdleLedgerCall ==
  [op |-> "none", pc |-> "idle", outer |-> "none", id |-> Num(0),
   sData |-> NoData, from |-> Num(0), limit |-> Num(0), usersData |-> <<>>,
   code |-> <<>>, lib |-> 0, conn |-> 0, cause |-> <<>>, caught |-> <<>>, out |-> Pending]

(***************************************************************************)
(* DCC._signData                                                           *)
(***************************************************************************)
\* A chunk as long as the whole APDU, its five header bytes forgotten.
maxChunkLengthNoHeader == MAX_SIZE

maxChunkLength == MAX_SIZE - 5

Min(a, b) == IF a < b THEN a ELSE b

\* The final marker decided with >= : a chunk that exactly fills the rest of
\* the payload is not marked.
IsLastByteOffByOne(dataLength, sendBytes) ==
  IF dataLength - sendBytes >= maxChunkLength THEN 0 ELSE 128

\* isLastByte of the chunk that starts at sendBytes
IsLastByte(dataLength, sendBytes) ==
  IF dataLength - sendBytes > maxChunkLength THEN 0 ELSE 128

\* One pass through the body of the loop up to its await: the call record
\* after the chunk that starts at call.sendBytes has been handed to send.
SignDataSend(call, chainId) ==
  LET dataLength == Len(call.dataBuffer)
      chunkLength == Min(dataLength - call.sendBytes, maxChunkLength)
      isLastByte == IsLastByte(dataLength, call.sendBytes)
      txChunk == Slice(call.dataBuffer, call.sendBytes,
                       chunkLength + call.sendBytes)
  IN [call EXCEPT !.sendBytes = call.sendBytes + chunkLength,
                  !.sent = Append(call.sent, Apdu(2, isLastByte, chainId, txChunk)),
                  !.pc = "awaitChunk"]

\* The signature taken from the first answer instead of the last.
SignDataFinishFirstAnswer(call) ==
  LET signature == SliceDropLast(call.acks[1], 2)
  IN IF Len(signature) = 0
     THEN Fail(MkError("Error", "Device returned an empty signature", NoCause))
     ELSE Ok(base58Encode(signature))

\* What follows the loop: the signature of the last answer.
SignDataFinish(call) ==
  LET signature == SliceDropLast(call.result, 2)
  IN IF Len(signature) = 0
     THEN Fail(MkError("Error", "Device returned an empty signature", NoCause))
     ELSE Ok(base58Encode(signature))

\* Whether the loop goes on after an answer without error.
SignDataMore(call) == Len(call.dataBuffer) > call.sendBytes

\* The call from its entry to its first await (or to its end).
SignDataEnter(call, chainId, dataBuffer) ==
  IF Len(dataBuffer) = 0
  THEN [call EXCEPT !.pc = "done",
                    !.out = Fail(MkError("Error", "Cannot sign empty data payload",
                                         NoCause))]
  ELSE SignDataSend([call EXCEPT !.dataBuffer = dataBuffer, !.sendBytes = 0,
                                 !.result = <<>>], chainId)

\* The loop with the status word looked at after the last chunk only.
SignDataResumeLateCheck(call, chainId, answer) ==
  IF ~answer.ok
  THEN [call EXCEPT !.pc = "done", !.out = Fail(answer.err[1])]
  ELSE LET got == [call EXCEPT !.result = answer.val,
                               !.acks = Append(call.acks, answer.val)]
           isError == checkError(SliceLast(answer.val, 2))
       IN IF SignDataMore(got)
          THEN SignDataSend(got, chainId)
          ELSE IF isError # <<>>
          THEN [got EXCEPT !.pc = "done", !.out = Fail(StatusError(isError[1]))]
          ELSE [got EXCEPT !.pc = "done", !.out = SignDataFinish(got)]

\* The call from the settling of an awaited send to its next await (or end).
\* answer is Ok(bytes), or Fail(e) when the transport rejected.
SignDataResume(call, chainId, answer) ==
  IF ~answer.ok
  THEN [call EXCEPT !.pc = "done", !.out = Fail(answer.err[1])]
  ELSE LET got == [call EXCEPT !.result = answer.val,
                               !.acks = Append(call.acks, answer.val)]
           isError == checkError(SliceLast(answer.val, 2))
       IN IF isError # <<>>
          THEN [got EXCEPT !.pc = "done", !.out = Fail(StatusError(isError[1]))]
          ELSE IF SignDataMore(got)
          THEN SignDataSend(got, chainId)
          ELSE [got EXCEPT !.pc = "done", !.out = SignDataFinish(got)]

(***************************************************************************)
(* DCC.getVersion                                                          *)
(***************************************************************************)
\* getVersion without the memo: every call sends a query of its own.
GetVersionEnterNoMemo(call, cache) ==
  [call |-> [call EXCEPT !.pc = "awaitVersion",
                         !.entry = cache.st,
                         !.sent = Append(@, Apdu(6, 0, 0, <<>>))],
   version |-> VersionPending]

\* this._version ??= this.transport.send(0x80, 0x06, 0, 0).then(...)
\* The call record notes the exchange it issued and the cache it found.  A
\* call that finds a query that has settled with a failure, its awaiting
\* calls not yet resumed, awaits that outcome.
GetVersionEnter(call, cache) ==
  [call |-> [call EXCEPT !.pc = IF cache.st = "failed" THEN "awaitSettled"
                                ELSE "awaitVersion",
                         !.entry = cache.st,
                         !.settled = IF cache.st = "failed" THEN cache.val ELSE @,
                         !.sent = IF cache.st = "null"
                                  THEN Append(@, Apdu(6, 0, 0, <<>>)) ELSE @],
   version |-> IF cache.st = "null" THEN VersionPending ELSE cache]

\* The try block with a catch that empties the cache on a rejection only.
GetVersionAwaitedKeepsBadStatus(settled) ==
  IF ~settled.ok
  THEN [res |-> Fail(settled.err[1]), clear |-> TRUE]
  ELSE LET isError == checkError(SliceLast(settled.val, 2))
       IN IF isError # <<>>
          THEN [res |-> Fail(StatusError(isError[1])), clear |-> FALSE]
          ELSE [res |-> Ok(SliceDropLast(settled.val, 2)), clear |-> FALSE]

\* The try block from the settling of this._version on.  settled is Ok(bytes),
\* or Fail(e) when the transport rejected; clear tells whether the catch
\* block has emptied the cache.
GetVersionAwaited(settled) ==
  IF ~settled.ok
  THEN [res |-> Fail(settled.err[1]), clear |-> TRUE]
  ELSE LET isError == checkError(SliceLast(settled.val, 2))
       IN IF isError # <<>>
          THEN [res |-> Fail(StatusError(isError[1])), clear |-> TRUE]
          ELSE [res |-> Ok(SliceDropLast(settled.val, 2)), clear |-> FALSE]

(***************************************************************************)
(* DCC._fillDataForSign                                                    *)
(***************************************************************************)
\* The first assertUint8 that throws, in the order of the calls.
RECURSIVE FirstError(_)
FirstError(checks) ==
  IF checks = <<>> THEN <<>>
  ELSE IF Head(checks) # <<>> THEN Head(checks) ELSE FirstError(Tail(checks))

\* A version component read with the patch level dropped.
VersionPartWithoutPatch(appVersion, i) ==
  IF Len(appVersion) > i /\ i < 2 THEN appVersion[i + 1] ELSE 0

\* appVersion[i] ?? 0, i from 0
VersionPart(appVersion, i) == IF Len(appVersion) > i THEN appVersion[i + 1] ELSE 0

\* The layout with three copies of the data for firmware >= 1.2.0.
FillDataForSignLayoutThreeCopies(appVersion, path, sData) ==
  LET amountPrecision == OrElse(sData.amountPrecision, DCC_PRECISION)
      amount2Precision == OrElse(sData.amount2Precision, 0)
      feePrecision == OrElse(sData.feePrecision, DCC_PRECISION)
      bad == FirstError(<< assertUint8("amountPrecision", amountPrecision),
                           assertUint8("amount2Precision", amount2Precision),
                           assertUint8("feePrecision", feePrecision),
                           assertUint8("dataType", sData.dataType),
                           assertUint8("dataVersion", sData.dataVersion) >>)
      major == VersionPart(appVersion, 0)
      minor == VersionPart(appVersion, 1)
      patch == VersionPart(appVersion, 2)
      fwVersion == major * 10000 + minor * 100 + patch
      pathBytes == splitPath(path)
      lengthBytes == uint32ToBytesBE(Len(sData.dataBuffer))
  IN IF bad # <<>> THEN Fail(bad[1])
     ELSE IF ~pathBytes.ok THEN pathBytes
     ELSE IF fwVersion >= 10200
     THEN LET prefixData ==
                concatBytes(<< pathBytes.val,
                               << amountPrecision, amount2Precision, feePrecision,
                                  sData.dataType, sData.dataVersion >>,
                               lengthBytes.val >>)
          IN Ok(concatBytes(<< prefixData, sData.dataBuffer, sData.dataBuffer,
                               sData.dataBuffer >>))
     ELSE IF fwVersion >= 10100
     THEN LET prefixData ==
                concatBytes(<< pathBytes.val,
                               << amountPrecision, feePrecision,
                                  sData.dataType, sData.dataVersion >>,
                               lengthBytes.val >>)
          IN Ok(concatBytes(<< prefixData, sData.dataBuffer, sData.dataBuffer >>))
     ELSE LET prefixData ==
                concatBytes(<< pathBytes.val,
                               << amountPrecision, feePrecision,
                                  sData.dataType, sData.dataVersion >> >>)
          IN Ok(concatBytes(<< prefixData, sData.dataBuffer >>))

\* The function from the answer of getVersion on.
FillDataForSignLayout(appVersion, path, sData) ==
  LET amountPrecision == OrElse(sData.amountPrecision, DCC_PRECISION)
      amount2Precision == OrElse(sData.amount2Precision, 0)
      feePrecision == OrElse(sData.feePrecision, DCC_PRECISION)
      bad == FirstError(<< assertUint8("amountPrecision", amountPrecision),
                           assertUint8("amount2Precision", amount2Precision),
                           assertUint8("feePrecision", feePrecision),
                           assertUint8("dataType", sData.dataType),
                           assertUint8("dataVersion", sData.dataVersion) >>)
      major == VersionPart(appVersion, 0)
      minor == VersionPart(appVersion, 1)
      patch == VersionPart(appVersion, 2)
      fwVersion == major * 10000 + minor * 100 + patch
      pathBytes == splitPath(path)
      lengthBytes == uint32ToBytesBE(Len(sData.dataBuffer))
  IN IF bad # <<>> THEN Fail(bad[1])
     ELSE IF ~pathBytes.ok THEN pathBytes
     ELSE IF fwVersion >= 10200
     THEN LET prefixData ==
                concatBytes(<< pathBytes.val,
                               << amountPrecision, amount2Precision, feePrecision,
                                  sData.dataType, sData.dataVersion >>,
                               lengthBytes.val >>)
          IN Ok(concatBytes(<< prefixData, sData.dataBuffer, sData.dataBuffer,
                               sData.dataBuffer, sData.dataBuffer >>))
     ELSE IF fwVersion >= 10100
     THEN LET prefixData ==
                concatBytes(<< pathBytes.val,
                               << amountPrecision, feePrecision,
                                  sData.dataType, sData.dataVersion >>,
                               lengthBytes.val >>)
          IN Ok(concatBytes(<< prefixData, sData.dataBuffer, sData.dataBuffer >>))
     ELSE LET prefixData ==
                concatBytes(<< pathBytes.val,
                               << amountPrecision, feePrecision,
                                  sData.dataType, sData.dataVersion >> >>)
          IN Ok(concatBytes(<< prefixData, sData.dataBuffer >>))

\* The function asking for the version before it looks at the data buffer.
FillDataForSignEnterVersionFirst(call, cache) == GetVersionEnter(call, cache)

\* The function up to its await of getVersion.
FillDataForSignEnter(call, cache) ==
  IF Len(call.sData.dataBuffer) = 0
  THEN [call |-> [call EXCEPT !.pc = "done",
                              !.out = Fail(MkError("Error",
                                                   "dataBuffer must not be empty",
                                                   NoCause))],
        version |-> cache]
  ELSE GetVersionEnter(call, cache)

(***************************************************************************)
(* DCC.signTransaction, signOrder, signSomeData, signRequest, signMessage   *)
(***************************************************************************)
SignOps ==
  {"signTransaction", "signOrder", "signSomeData", "signRequest", "signMessage"}

\* signRequest stamped with the type code of signSomeData.
SignStampRequestAsSomeData(op, sOData) ==
  CASE op = "signTransaction" -> sOData
    [] op = "signOrder" -> [sOData EXCEPT !.dataType = SIGNED_CODES_ORDER]
    [] op \in {"signSomeData", "signRequest"} ->
         [sOData EXCEPT !.dataType = SIGNED_CODES_SOME_DATA, !.dataVersion = 0,
                        !.amountPrecision = Some(0), !.feePrecision = Some(0)]
    [] op = "signMessage" ->
         [sOData EXCEPT !.dataType = SIGNED_CODES_MESSAGE, !.dataVersion = 0,
                        !.amountPrecision = Some(0), !.feePrecision = Some(0)]

\* The sData each method hands to _fillDataForSign.
SignStamp(op, sOData) ==
  CASE op = "signTransaction" -> sOData
    [] op = "signOrder" -> [sOData EXCEPT !.dataType = SIGNED_CODES_ORDER]
    [] op = "signSomeData" ->
         [sOData EXCEPT !.dataType = SIGNED_CODES_SOME_DATA, !.dataVersion = 0,
                        !.amountPrecision = Some(0), !.feePrecision = Some(0)]
    [] op = "signRequest" ->
         [sOData EXCEPT !.dataType = SIGNED_CODES_REQUEST, !.dataVersion = 0,
                        !.amountPrecision = Some(0), !.feePrecision = Some(0)]
    [] op = "signMessage" ->
         [sOData EXCEPT !.dataType = SIGNED_CODES_MESSAGE, !.dataVersion = 0,
                        !.amountPrecision = Some(0), !.feePrecision = Some(0)]

(***************************************************************************)
(* DCC.getWalletPublicKey                                                  *)
(***************************************************************************)
\* getWalletPublicKey that never asks the device to show the address.
GetWalletPublicKeyEnterVerifyIgnored(call, chainId) ==
  LET buffer == splitPath(call.path)
  IN IF ~buffer.ok
     THEN [call EXCEPT !.pc = "done", !.out = Fail(buffer.err[1])]
     ELSE [call EXCEPT !.pc = "awaitKey",
                       !.sent = Append(@, Apdu(4, 0, chainId, buffer.val))]

\* getWalletPublicKey up to its await: the path is encoded and sent.
GetWalletPublicKeyEnter(call, chainId) ==
  LET buffer == splitPath(call.path)
      p1 == IF call.verify THEN 128 ELSE 0
  IN IF ~buffer.ok
     THEN [call EXCEPT !.pc = "done", !.out = Fail(buffer.err[1])]
     ELSE [call EXCEPT !.pc = "awaitKey",
                       !.sent = Append(@, Apdu(4, p1, chainId, buffer.val))]

\* The rest of getWalletPublicKey with the status word examined before the
\* length.
GetWalletPublicKeyResumeStatusFirst(call, answer) ==
  IF ~answer.ok
  THEN [call EXCEPT !.pc = "done", !.out = Fail(answer.err[1])]
  ELSE LET response == answer.val
           minLength == PUBLIC_KEY_LENGTH + ADDRESS_LENGTH + STATUS_LENGTH
           isError == checkError(SliceLast(response, STATUS_LENGTH))
           address == bytesToAscii(Slice(response, PUBLIC_KEY_LENGTH,
                                         PUBLIC_KEY_LENGTH + ADDRESS_LENGTH))
           got == [call EXCEPT !.pc = "done", !.result = response,
                               !.acks = Append(@, response)]
       IN IF isError # <<>>
          THEN [got EXCEPT !.out = Fail(StatusError(isError[1]))]
          ELSE IF Len(response) < minLength
          THEN [got EXCEPT !.out =
                  Fail(MkError("Error",
                               "Invalid response: expected at least "
                                 \o NumToString(minLength) \o " bytes, got "
                                 \o NumToString(Len(response)), NoCause))]
          ELSE IF ~address.ok
          THEN [got EXCEPT !.out = Fail(address.err[1])]
          ELSE [got EXCEPT !.out =
                  Ok([publicKey |-> base58Encode(Slice(response, 0, PUBLIC_KEY_LENGTH)),
                      address |-> address.val,
                      statusCode |-> bytesToHex(SliceLast(response, STATUS_LENGTH))])]

GetWalletPublicKeyResume(call, answer) ==
  IF ~answer.ok
  THEN [call EXCEPT !.pc = "done", !.out = Fail(answer.err[1])]
  ELSE LET response == answer.val
           minLength == PUBLIC_KEY_LENGTH + ADDRESS_LENGTH + STATUS_LENGTH
           isError == checkError(SliceLast(response, STATUS_LENGTH))
           address == bytesToAscii(Slice(response, PUBLIC_KEY_LENGTH,
                                         PUBLIC_KEY_LENGTH + ADDRESS_LENGTH))
           got == [call EXCEPT !.pc = "done", !.result = response,
                               !.acks = Append(@, response)]
       IN IF Len(response) < minLength
          THEN [got EXCEPT !.out =
                  Fail(MkError("Error",
                               "Invalid response: expected at least "
                                 \o NumToString(minLength) \o " bytes, got "
                                 \o NumToString(Len(response)), NoCause))]
          ELSE IF isError # <<>>
          THEN [got EXCEPT !.out = Fail(StatusError(isError[1]))]
          ELSE IF ~address.ok
          THEN [got EXCEPT !.out = Fail(address.err[1])]
          ELSE [got EXCEPT !.out =
                  Ok([publicKey |-> base58Encode(Slice(response, 0, PUBLIC_KEY_LENGTH)),
                      address |-> address.val,
                      statusCode |-> bytesToHex(SliceLast(response, STATUS_LENGTH))])]

(***************************************************************************)
(* A call of an engine method, from its entry to its first await           *)
(***************************************************************************)
EngineOps == SignOps \cup {"getVersion", "getWalletPublicKey", "_fillDataForSign", "_signData"}

\* args: [path, sData, verify]; _signData takes its payload in sData.dataBuffer.
\* The result is the call record and the version cache of the engine.
EngineEnter(e, op, args, cache) ==
  LET call == [IdleCall EXCEPT !.op = op, !.eng = e, !.path = args.path,
                               !.verify = args.verify, !.given = args.sData]
  IN CASE op = "getVersion" -> GetVersionEnter(call, cache)
       [] op = "getWalletPublicKey" ->
            [call |-> GetWalletPublicKeyEnter(call, networkCode[e]),
             version |-> cache]
       [] op = "_signData" ->
            [call |-> SignDataEnter(call, networkCode[e], args.sData.dataBuffer),
             version |-> cache]
       [] op = "_fillDataForSign" ->
            FillDataForSignEnter([call EXCEPT !.sData = args.sData], cache)
       [] op \in SignOps ->
            FillDataForSignEnter([call EXCEPT !.sData = SignStamp(op, args.sData)],
                                 cache)

\* A call that awaits getVersion, from the settling of this._version to its
\* next await (or to its end).
EngineAfterVersion(call, settled) ==
  LET got == GetVersionAwaited(settled)
      layout == FillDataForSignLayout(got.res.val, call.path, call.sData)
  IN IF ~got.res.ok THEN [call EXCEPT !.pc = "done", !.out = got.res]
     ELSE IF call.op = "getVersion" THEN [call EXCEPT !.pc = "done", !.out = got.res]
     ELSE IF call.op = "_fillDataForSign" \/ ~layout.ok
     THEN [call EXCEPT !.pc = "done", !.out = layout]
     ELSE SignDataEnter(call, networkCode[call.eng], layout.val)

(***************************************************************************)
(* Steps of the engine                                                     *)
(***************************************************************************)
NoArgs == [path |-> <<>>, sData |-> NoData, verify |-> FALSE]

\* Method op of engine e runs for caller c up to its first await.
EngineInvoke(c, e, op, args) ==
  LET entered == EngineEnter(e, op, args, version[e])
  IN /\ ecall[c].pc = "idle"
     /\ ecall' = [ecall EXCEPT ![c] = entered.call]
     /\ version' = [version EXCEPT ![e] = entered.version]
     /\ UNCHANGED networkCode

\* Caller c invokes method op of engine e.
EngineCall(c, e, op, args) ==
  /\ EngineInvoke(c, e, op, args)
  /\ UNCHANGED ledgerVars

\* The device answers the signing chunk caller c awaits, or the transport
\* rejects the exchange; the loop of _signData runs on to its next await.
DeviceChunkReply(c, replies) ==
  /\ ecall[c].pc = "awaitChunk"
  /\ \E answer \in {Ok(r) : r \in replies} \cup {Fail(x) : x \in TransportErrors} :
       ecall' = [ecall EXCEPT ![c] =
                   SignDataResume(ecall[c], networkCode[ecall[c].eng], answer)]
  /\ UNCHANGED <<version, networkCode>>
  /\ UNCHANGED ledgerVars

\* The device answers the key request caller c awaits, or the transport
\* rejects the exchange.
DeviceKeyReply(c, replies) ==
  /\ ecall[c].pc = "awaitKey"
  /\ \E answer \in {Ok(r) : r \in replies} \cup {Fail(x) : x \in TransportErrors} :
       ecall' = [ecall EXCEPT ![c] = GetWalletPublicKeyResume(ecall[c], answer)]
  /\ UNCHANGED <<version, networkCode>>
  /\ UNCHANGED ledgerVars

\* The version query of engine e settles.  An answer without error stays in
\* this._version and each call that awaits it goes on in a step of its own.
\* On a rejection or an error status the continuations of the awaiting calls
\* are queued together and run one after the other before any other code:
\* each takes the catch block, which empties this._version, and ends.  Calls
\* that start between the settling and these continuations are the subject
\* of SpecOverlap.
DeviceVersionReply(e, replies) ==
  /\ version[e].st = "pending"
  /\ \E settled \in {Ok(r) : r \in replies} \cup {Fail(x) : x \in TransportErrors} :
       IF GetVersionAwaited(settled).clear
       THEN /\ version' = [version EXCEPT ![e] = VersionNull]
            /\ ecall' = [c \in Calls |->
                           IF ecall[c].pc = "awaitVersion" /\ ecall[c].eng = e
                           THEN EngineAfterVersion(ecall[c], settled)
                           ELSE ecall[c]]
       ELSE /\ version' = [version EXCEPT ![e] = VersionResolved(settled.val)]
            /\ UNCHANGED ecall
  /\ UNCHANGED networkCode
  /\ UNCHANGED ledgerVars

\* Caller c, awaiting a this._version that has resolved, goes on.
VersionResume(c) ==
  LET e == ecall[c].eng
      settled == Ok(version[e].val)
  IN /\ ecall[c].pc = "awaitVersion"
     /\ ecall[c].awaits = 0
     /\ version[e].st = "resolved"
     /\ ecall' = [ecall EXCEPT ![c] = EngineAfterVersion(ecall[c], settled)]
     /\ version' = [version EXCEPT ![e] =
                      IF GetVersionAwaited(settled).clear THEN VersionNull ELSE @]
     /\ UNCHANGED networkCode
     /\ UNCHANGED ledgerVars

\* The caller takes the result of its finished call.
EngineReturn(c) ==
  /\ ecall[c].pc = "done"
  /\ ecall' = [ecall EXCEPT ![c] = IdleCall]
  /\ UNCHANGED <<version, networkCode>>
  /\ UNCHANGED ledgerVars

\* One engine, constructed on an open transport, and no call running.
InitEngine ==
  /\ version = [e \in EngIds |-> VersionNull]
  /\ networkCode \in {[e \in EngIds |-> n] : n \in {MAIN_NET_CODE, 84}}
  /\ ecall = [c \in Calls |-> IdleCall]
  /\ options = [networkCode |-> networkCode[1], exchangeTimeout |-> Undefined]
  /\ ready = TRUE
  /\ dccLibPromise = 1
  /\ initTransportPromise = 1
  /\ lastError = <<>>
  /\ transport = [t \in EngIds |-> IF t = 1 THEN OpenTransport ELSE NoTransport]
  /\ conn = [k \in ConnIds |-> IdleConn]
  /\ lcall = [u \in Users |-> IdleLedgerCall]

(***************************************************************************)
(* SpecSign: one caller hands payloads to _signData of one engine.         *)
(***************************************************************************)
\* The payload of n bytes whose byte at offset i is (seed + i) mod 256.
Payload(n, seed) == [i \in 1..n |-> (seed + i - 1) % 256]
PayloadSeeds == {0, 201}

CallSignData(c) ==
  \E n \in 0..MaxBufLen, seed \in PayloadSeeds :
    EngineCall(c, 1, "_signData",
               [NoArgs EXCEPT !.sData = [NoData EXCEPT !.dataBuffer = Payload(n, seed)]])

NextSign == CallSignData(1) \/ DeviceChunkReply(1, ChunkReplies) \/ EngineReturn(1)

SpecSign == InitEngine /\ [][NextSign]_vars

(***************************************************************************)
(* Claims about _signData                                                  *)
(***************************************************************************)
\* The signing chunks (INS 0x02) a call has sent, in the order of sending.
SignChunks(c) == SelectSeq(ecall[c].sent, LAMBDA a : a.ins = 2)

RECURSIVE ConcatData(_)
ConcatData(apdus) ==
  IF apdus = <<>> THEN <<>> ELSE Head(apdus).data \o ConcatData(Tail(apdus))

\* The status word of an answer as the engine reads it: the last two bytes,
\* a missing byte read as 0.
StatusWord(answer) ==
  LET tail == SliceLast(answer, 2)
  IN (IF Len(tail) >= 1 THEN tail[1] ELSE 0) * 256
       + (IF Len(tail) >= 2 THEN tail[2] ELSE 0)

\* Every answer the call has received carries the status word 0x9000.
AllAcksOk(c) ==
  \A k \in 1..Len(ecall[c].acks) : StatusWord(ecall[c].acks[k]) = 36864

\* C1: of the signing chunks of one _signData call every chunk but the last
\* sent carries P1 = 0x00; the last chunk sent carries P1 = 0x80 exactly when
\* it ends the payload, and a call whose chunks were all accepted has sent
\* P1 = 0x80 on its last chunk, whatever the length of the payload.
C1_FinalMarkerOnLastChunk ==
  \A c \in Calls :
    LET chunks == SignChunks(c)
        n == Len(chunks)
    IN /\ \A k \in 1..(n - 1) : chunks[k].p1 = 0
       /\ n > 0 =>
            chunks[n].p1 = IF Len(ConcatData(chunks)) = Len(ecall[c].dataBuffer)
                           THEN 128 ELSE 0
       /\ (ecall[c].pc = "done" /\ Len(ecall[c].acks) = n /\ n > 0 /\ AllAcksOk(c))
            => chunks[n].p1 = 128

\* A finished call whose payload is an exact multiple of 123 bytes, sent in
\* two chunks that were both accepted.
C1_Witness ==
  /\ ecall[1].pc = "done"
  /\ ecall[1].out.ok
  /\ Len(ecall[1].dataBuffer) = 246
  /\ Len(SignChunks(1)) = 2

\* C2: a call has at most one chunk without answer; every chunk but the last
\* sent was answered with status 0x9000 before the next went out; and an
\* answer with another status word is the last exchange of the call, which
\* fails with the description of that status and the status as cause.
C2_NoPipelining ==
  \A c \in Calls :
    LET chunks == SignChunks(c)
        acks == ecall[c].acks
    IN ecall[c].op = "_signData" =>
         /\ Len(acks) <= Len(chunks)
         /\ Len(chunks) <= Len(acks) + 1
         /\ Len(chunks) = Len(acks) + 1 => ecall[c].pc \in {"awaitChunk", "done"}
         /\ \A k \in 1..Len(acks) :
              StatusWord(acks[k]) # 36864 =>
                /\ k = Len(acks)
                /\ Len(chunks) = k
                /\ ecall[c].pc = "done"
                /\ ~ecall[c].out.ok
                /\ ecall[c].out.err[1].cause =
                     << [error |-> ecall[c].out.err[1].message,
                         status |-> StatusWord(acks[k])] >>
                /\ StatusWord(acks[k]) = 27013 =>
                     ecall[c].out.err[1].message = "Conditions not satisfied"

\* The device refused the second of three chunks.
C2_Witness ==
  /\ ecall[1].pc = "done"
  /\ Len(ecall[1].dataBuffer) = 250
  /\ Len(SignChunks(1)) = 2
  /\ Len(ecall[1].acks) = 2
  /\ StatusWord(ecall[1].acks[2]) = 27013

\* C3: the chunks sent so far are each 1..123 bytes long and make up, in the
\* order of sending, a prefix of the payload; when the device has accepted
\* every chunk of a payload of n >= 1 bytes, exactly ceil(n / 123) chunks were
\* sent and together they are the payload.
C3_ChunksPartitionPayload ==
  \A c \in Calls :
    LET chunks == SignChunks(c)
        data == ConcatData(chunks)
        n == Len(ecall[c].dataBuffer)
    IN /\ \A k \in 1..Len(chunks) :
            Len(chunks[k].data) >= 1 /\ Len(chunks[k].data) <= 123
       /\ Len(data) <= n
       /\ data = SubSeq(ecall[c].dataBuffer, 1, Len(data))
       /\ (ecall[c].pc = "done" /\ n >= 1 /\ Len(ecall[c].acks) = Len(chunks)
             /\ AllAcksOk(c))
            => /\ Len(chunks) = (n + 122) \div 123
               /\ data = ecall[c].dataBuffer

\* A payload of 250 bytes went out in three accepted chunks.
C3_Witness ==
  /\ ecall[1].pc = "done"
  /\ ecall[1].out.ok
  /\ Len(ecall[1].dataBuffer) = 250
  /\ Len(SignChunks(1)) = 3
  /\ Len(SignChunks(1)[3].data) = 4

(***************************************************************************)
(* SpecFill: one caller has _fillDataForSign lay out signing payloads for  *)
(* the version the device reports.                                         *)
(***************************************************************************)
\* The longest data buffer of a signing payload.
MaxDataLen == 3

\* "44'/5741564'/0'/0'/"
ADDRESS_PREFIX ==
  << "4", "4", "'", "/", "5", "7", "4", "1", "5", "6", "4", "'", "/",
     "0", "'", "/", "0", "'", "/" >>

\* Paths handed to the engine: an account path, a short unhardened path with
\* the root marker, and a path splitPath rejects.
EnginePaths ==
  { ADDRESS_PREFIX \o <<"0", "'">>, <<"m", "/", "4", "4", "/", "1">>, <<"0", "1">> }

\* Versions on both sides of the two thresholds, with one, two and four
\* version bytes, and an error status.
FillVersionReplies ==
  { <<major, minor, patch, 144, 0>> :
      major \in {0, 1, 2}, minor \in {0, 1, 2, 255}, patch \in {0, 99, 100, 255} }
    \cup { <<144, 0>>, <<1, 144, 0>>, <<1, 2, 144, 0>>, <<1, 2, 0, 7, 144, 0>>,
           <<1, 2, 0, 105, 133>> }

FillPayloads ==
  { [dataBuffer |-> Payload(n, 17), dataType |-> dataType, dataVersion |-> 1,
     amountPrecision |-> ap, amount2Precision |-> a2p, feePrecision |-> fp] :
      n \in 0..MaxDataLen, dataType \in {4, 255},
      ap \in {Undefined, Some(0), Some(6)}, a2p \in {Undefined, Some(3)},
      fp \in {Undefined, Some(2), Some(256)} }

CallFillDataForSign(c) ==
  \E path \in EnginePaths, sData \in FillPayloads :
    EngineCall(c, 1, "_fillDataForSign",
               [NoArgs EXCEPT !.path = path, !.sData = sData])

NextFill ==
  \/ CallFillDataForSign(1)
  \/ DeviceVersionReply(1, FillVersionReplies)
  \/ VersionResume(1)
  \/ EngineReturn(1)

SpecFill == InitEngine /\ [][NextFill]_vars

\* C4: with fwVersion = major*10000 + minor*100 + patch of the version the
\* device reported (a missing component counting 0), _fillDataForSign returns
\* path || [amountPrecision, amount2Precision, feePrecision, dataType,
\* dataVersion] || uint32BE(len) || data four times for fwVersion >= 10200,
\* path || [amountPrecision, feePrecision, dataType, dataVersion] ||
\* uint32BE(len) || data twice for 10100 <= fwVersion < 10200, and
\* path || [amountPrecision, feePrecision, dataType, dataVersion] || data
\* below 10100; len is the length of one copy of data, an absent precision
\* is 8 (amount, fee) or 0 (second amount).
C4_LayoutByFirmware ==
  \A c \in Calls :
    (ecall[c].op = "_fillDataForSign" /\ ecall[c].pc = "done" /\ ecall[c].out.ok) =>
      LET reported == version[ecall[c].eng].val
          appVersion == SubSeq(reported, 1, Len(reported) - 2)
          part(i) == IF Len(appVersion) >= i THEN appVersion[i] ELSE 0
          fwVersion == part(1) * 10000 + part(2) * 100 + part(3)
          sData == ecall[c].sData
          data == sData.dataBuffer
          ap == IF sData.amountPrecision = <<>> THEN 8 ELSE sData.amountPrecision[1]
          a2p == IF sData.amount2Precision = <<>> THEN 0 ELSE sData.amount2Precision[1]
          fp == IF sData.feePrecision = <<>> THEN 8 ELSE sData.feePrecision[1]
          pathBytes == splitPath(ecall[c].path).val
          len == <<0, 0, 0, Len(data)>>
      IN /\ version[ecall[c].eng].st = "resolved"
         /\ ecall[c].out.val =
              IF fwVersion >= 10200
              THEN pathBytes \o <<ap, a2p, fp, sData.dataType, sData.dataVersion>>
                     \o len \o data \o data \o data \o data
              ELSE IF fwVersion >= 10100
              THEN pathBytes \o <<ap, fp, sData.dataType, sData.dataVersion>>
                     \o len \o data \o data
              ELSE pathBytes \o <<ap, fp, sData.dataType, sData.dataVersion>> \o data

\* The newest layout, returned for firmware 1.2.0 and three bytes of data with
\* all three precisions given.
C4_Witness ==
  /\ ecall[1].op = "_fillDataForSign"
  /\ ecall[1].pc = "done"
  /\ ecall[1].out.ok
  /\ version[1].val = <<1, 2, 0, 144, 0>>
  /\ Len(ecall[1].sData.dataBuffer) = 3
  /\ ecall[1].sData.amount2Precision = Some(3)
  /\ ecall[1].sData.amountPrecision = Some(6)
  /\ Len(ecall[1].out.val) = 20 + 5 + 4 + 12

(***************************************************************************)
(* SpecVersion: two callers query the version of one engine, directly and  *)
(* through signTransaction, one after the other or overlapping.            *)
(***************************************************************************)
VersionPayloads ==
  { [NoData EXCEPT !.dataBuffer = Payload(n, 17), !.dataType = 4, !.dataVersion = 1] :
      n \in 0..1 }

CallGetVersion(c) == EngineCall(c, 1, "getVersion", NoArgs)

CallSignTransaction(c) ==
  \E sData \in VersionPayloads :
    EngineCall(c, 1, "signTransaction",
               [NoArgs EXCEPT !.path = ADDRESS_PREFIX \o <<"0", "'">>,
                              !.sData = sData])

NextVersion ==
  \/ \E c \in Calls : CallGetVersion(c)
  \/ \E c \in Calls : CallSignTransaction(c)
  \/ DeviceVersionReply(1, VersionReplies)
  \/ \E c \in Calls : VersionResume(c)
  \/ \E c \in Calls : DeviceChunkReply(c, ChunkReplies)
  \/ \E c \in Calls : EngineReturn(c)

SpecVersion == InitEngine /\ [][NextVersion]_vars

\* The version queries (INS 0x06) a call has sent.
VersionQueriesOf(c) == Len(SelectSeq(ecall[c].sent, LAMBDA a : a.ins = 6))

\* C5: a call that finds a version already answered sends no version query,
\* and every getVersion that has returned, returned the very bytes the cache
\* holds, so the cache is never emptied or replaced after a success; a call
\* that finds the cache empty, as every failure leaves it, sends exactly one
\* version query.
C5_VersionMemoized ==
  \A c \in Calls :
    LET cache == version[ecall[c].eng]
    IN ecall[c].op \in {"getVersion", "signTransaction"} =>
         /\ ecall[c].entry = "resolved" => VersionQueriesOf(c) = 0
         /\ ecall[c].entry = "null" => VersionQueriesOf(c) = 1
         /\ (ecall[c].op = "getVersion" /\ ecall[c].pc = "done" /\ ecall[c].out.ok)
              => /\ cache.st = "resolved"
                 /\ ecall[c].out.val = SubSeq(cache.val, 1, Len(cache.val) - 2)
         /\ (ecall[c].op = "signTransaction" /\ SignChunks(c) # <<>>)
              => cache.st = "resolved"

\* One caller holds the version it was given; the other has signed after that
\* without a version query of its own.
C5_Witness ==
  /\ ecall[1].op = "getVersion" /\ ecall[1].pc = "done" /\ ecall[1].out.ok
  /\ ecall[1].out.val = <<1, 1, 3>>
  /\ ecall[2].op = "signTransaction" /\ ecall[2].pc = "done" /\ ecall[2].out.ok
  /\ ecall[2].entry = "resolved"
  /\ VersionQueriesOf(2) = 0

\* A call that awaited the version has ended in this step with an error while
\* it was getVersion that failed: the query was in flight, or the answer held
\* in the cache carries an error status.
GetVersionFails(c) ==
  /\ ecall[c].pc = "awaitVersion"
  /\ ecall'[c].pc = "done"
  /\ ~ecall'[c].out.ok
  /\ \/ ecall[c].op = "getVersion"
     \/ version[ecall[c].eng].st = "pending"
     \/ StatusWord(version[ecall[c].eng].val) # 36864

\* C6: in the step in which getVersion fails for a caller the cache is left
\* empty and the caller gets the error of the transport, or the description
\* of the status word with the status as cause; the cache never holds an
\* answer with an error status, and a version returned is the held answer
\* without its status word.
C6_FailureClearsVersion ==
  /\ [](\A e \in EngIds :
          version[e].st = "resolved" => StatusWord(version[e].val) = 36864)
  /\ [](\A c \in Calls :
          (ecall[c].op = "getVersion" /\ ecall[c].pc = "done" /\ ecall[c].out.ok)
            => \E r \in VersionReplies :
                 /\ StatusWord(r) = 36864
                 /\ ecall[c].out.val = SliceDropLast(r, 2))
  /\ [][\A c \in Calls :
          GetVersionFails(c) =>
            /\ version'[ecall[c].eng].st = "null"
            /\ \/ ecall'[c].out.err[1] \in TransportErrors
               \/ /\ ecall'[c].out.err[1].cause # <<>>
                  /\ ecall'[c].out.err[1].cause[1].status # 36864
                  /\ ecall'[c].out.err[1].message
                       = ecall'[c].out.err[1].cause[1].error]_vars

\* A getVersion and a signTransaction that shared one query have both failed
\* on its error status, and the cache is empty.
C6_Witness ==
  /\ ecall[1].op = "getVersion" /\ ecall[1].pc = "done"
  /\ ecall[2].op = "signTransaction" /\ ecall[2].pc = "done"
  /\ ecall[2].entry = "pending"
  /\ ecall[1].out = Fail(StatusError([error |-> "Conditions not satisfied",
                                      status |-> 27013]))
  /\ ecall[2].out = ecall[1].out
  /\ version[1].st = "null"

(***************************************************************************)
(* DCCLedger: tryConnect, disconnect, _initTransport, _initDCCLib          *)
(***************************************************************************)
\* The create() of the factory rejects.
CreateErrors == { MkError("Error", "No device found", NoCause) }

\* The next tryConnect() or disconnect() call and the next transport of the
\* factory; 0 when the behaviour has used them up.
FreeConn ==
  IF \E k \in ConnIds : conn[k].kind = "none"
  THEN CHOOSE k \in ConnIds :
         conn[k].kind = "none" /\ \A j \in ConnIds : conn[j].kind = "none" => k <= j
  ELSE 0

FreeTransport ==
  IF \E t \in EngIds : transport[t].st = "none"
  THEN CHOOSE t \in EngIds :
         transport[t].st = "none" /\ \A j \in EngIds : transport[j].st = "none" => t <= j
  ELSE 0

\* _backgroundReconnect() without its .catch(): the promise of the
\* tryConnect() it starts is dropped.
PromiseHandledButBackground(origin) ==
  origin \in {"constructor", "explicit", "inline", "probe"}

\* Whether the code that calls tryConnect() or disconnect() attaches a
\* rejection handler to the promise it gets.
PromiseHandled(origin) ==
  origin \in {"constructor", "explicit", "inline", "probe", "background"}

\* disconnect() that leaves the engine cached: _dccLibPromise is not emptied.
DisconnectEnterKeepsEngine(k, kind, origin) ==
  /\ k # 0
  /\ conn' = [conn EXCEPT ![k] =
       [IdleConn EXCEPT
          !.kind = kind,
          !.origin = origin,
          !.handled = PromiseHandled(origin),
          !.tp = initTransportPromise,
          !.pc = IF initTransportPromise # 0 THEN "discAwaitTp"
                 ELSE IF kind = "disconnect" THEN "done" ELSE "afterDisc",
          !.out = IF initTransportPromise = 0 /\ kind = "disconnect"
                  THEN Ok(<<>>) ELSE Pending]]
  /\ initTransportPromise' = 0
  /\ dccLibPromise' = dccLibPromise

\* disconnect() up to its await, or to its end when there is no transport
\* promise: the session fields are read and emptied.  kind is disconnect for
\* a call of its own and tryConnect for the call at the head of tryConnect.
\* Debug logging is off, so _unsubscribeLog stays null.  The code that made
\* the call handles the promise it got before it yields: the constructor and
\* _backgroundReconnect with .catch(), the others by awaiting it.
DisconnectEnter(k, kind, origin) ==
  /\ k # 0
  /\ conn' = [conn EXCEPT ![k] =
       [IdleConn EXCEPT
          !.kind = kind,
          !.origin = origin,
          !.handled = PromiseHandled(origin),
          !.tp = initTransportPromise,
          !.pc = IF initTransportPromise # 0 THEN "discAwaitTp"
                 ELSE IF kind = "disconnect" THEN "done" ELSE "afterDisc",
          !.out = IF initTransportPromise = 0 /\ kind = "disconnect"
                  THEN Ok(<<>>) ELSE Pending]]
  /\ initTransportPromise' = 0
  /\ dccLibPromise' = 0

\* tryConnect() up to its first await.
TryConnectEnter(k, origin) == DisconnectEnter(k, "tryConnect", origin)

\* The record of a call whose disconnect() part has returned.
AfterDisconnect(task) ==
  IF task.kind = "disconnect"
  THEN [task EXCEPT !.pc = "done", !.out = Ok(<<>>)]
  ELSE [task EXCEPT !.pc = "afterDisc"]

\* disconnect(): the awaited transport promise has settled.  A transport is
\* asked to close; a rejection is swallowed.
DisconnectAwaited(k) ==
  LET tp == conn[k].tp
  IN /\ conn[k].pc = "discAwaitTp"
     /\ transport[tp].st \in {"open", "failed"}
     /\ IF transport[tp].st = "open"
        THEN /\ transport' = [transport EXCEPT ![tp].close = "called"]
             /\ conn' = [conn EXCEPT ![k].pc = "discClose"]
        ELSE /\ conn' = [conn EXCEPT ![k] = AfterDisconnect(@)]
             /\ UNCHANGED transport
     /\ UNCHANGED <<options, ready, dccLibPromise, initTransportPromise,
                    lastError, lcall>>
     /\ UNCHANGED engineVars

\* disconnect(): transport.close() has resolved or rejected.
DisconnectClosed(k) ==
  /\ conn[k].pc = "discClose"
  /\ transport' = [transport EXCEPT ![conn[k].tp].close = "done"]
  /\ conn' = [conn EXCEPT ![k] = AfterDisconnect(@)]
  /\ UNCHANGED <<options, ready, dccLibPromise, initTransportPromise,
                 lastError, lcall>>
  /\ UNCHANGED engineVars

\* tryConnect() after disconnect(): _initTransport() asks the factory for a
\* transport and puts a .catch() on its promise, _initDCCLib() chains the
\* engine on it; the call then awaits both promises through Promise.all,
\* which puts a handler on each.
ConnectInit(k) ==
  LET t == FreeTransport
  IN /\ conn[k].pc = "afterDisc"
     /\ t # 0
     /\ ready' = FALSE
     /\ transport' = [transport EXCEPT ![t].st = "pending",
                                       ![t].tpHandled = TRUE,
                                       ![t].libHandled = TRUE]
     /\ initTransportPromise' = t
     /\ dccLibPromise' = t
     /\ conn' = [conn EXCEPT ![k].pc = "awaitAll", ![k].own = t]
     /\ UNCHANGED <<options, lastError, lcall>>
     /\ UNCHANGED engineVars

\* The arguments of the setExchangeTimeout calls the callback of
\* _initTransport makes.
ExchangeTimeoutCalls(opts) ==
  IF opts.exchangeTimeout # Undefined THEN <<opts.exchangeTimeout[1]>> ELSE <<>>

\* create() resolves and the engine constructed takes over the version the
\* engine of the transport before had cached.
TransportOpensKeepsVersion(t) ==
  /\ transport[t].st = "pending"
  /\ transport' = [transport EXCEPT ![t].st = "open",
                                    ![t].timeouts = @ \o ExchangeTimeoutCalls(options)]
  /\ ready' = TRUE
  /\ networkCode' = [networkCode EXCEPT ![t] = options.networkCode]
  /\ version' = [version EXCEPT ![t] = IF t > 1 THEN version[t - 1] ELSE VersionNull]
  /\ UNCHANGED <<options, dccLibPromise, initTransportPromise, lastError,
                 conn, lcall, ecall>>

\* create() resolves: the callback of _initTransport configures the transport
\* and the callback of _initDCCLib, first in line behind it, sets ready and
\* constructs the engine.
TransportOpens(t) ==
  /\ transport[t].st = "pending"
  /\ transport' = [transport EXCEPT ![t].st = "open",
                                    ![t].timeouts = @ \o ExchangeTimeoutCalls(options)]
  /\ ready' = TRUE
  /\ networkCode' = [networkCode EXCEPT ![t] = options.networkCode]
  /\ version' = [version EXCEPT ![t] = VersionNull]
  /\ UNCHANGED <<options, dccLibPromise, initTransportPromise, lastError,
                 conn, lcall, ecall>>

\* create() rejects: both promises of the transport reject, no callback runs.
TransportFails(t) ==
  /\ transport[t].st = "pending"
  /\ \E e \in CreateErrors :
       transport' = [transport EXCEPT ![t].st = "failed", ![t].err = <<e>>]
  /\ UNCHANGED <<options, ready, dccLibPromise, initTransportPromise,
                 lastError, conn, lcall>>
  /\ UNCHANGED engineVars

\* What the promises of transport t have settled to.
TransportSettled(t) == transport[t].st \in {"open", "failed"}

\* The error tryConnect throws from its catch.
ConnectError(cause) ==
  MkError("Error", "Failed to connect to Ledger device", <<cause>>)

\* tryConnect() that forgets the last error once it has connected.
ConnectSettledClearsError(k) ==
  LET t == conn[k].own
  IN /\ conn[k].pc = "awaitAll"
     /\ TransportSettled(t)
     /\ conn' = [conn EXCEPT
          ![k].pc = "done",
          ![k].out = IF transport[t].st = "open" THEN Ok(<<>>)
                     ELSE Fail(ConnectError(transport[t].err[1]))]
     /\ lastError' = IF transport[t].st = "open" THEN <<>> ELSE lastError
     /\ UNCHANGED <<options, ready, dccLibPromise, initTransportPromise,
                    transport, lcall>>
     /\ UNCHANGED engineVars

\* tryConnect(): Promise.all of its two promises has settled.
ConnectSettled(k) ==
  LET t == conn[k].own
  IN /\ conn[k].pc = "awaitAll"
     /\ TransportSettled(t)
     /\ conn' = [conn EXCEPT
          ![k].pc = "done",
          ![k].out = IF transport[t].st = "open" THEN Ok(<<>>)
                     ELSE Fail(ConnectError(transport[t].err[1]))]
     /\ UNCHANGED <<options, ready, dccLibPromise, initTransportPromise,
                    lastError, transport, lcall>>
     /\ UNCHANGED engineVars

(***************************************************************************)
(* DCCLedger: getPathById, getTransport and the catch of an operation      *)
(***************************************************************************)
RECURSIVE NatChars(_)
\* The characters of String(n), n >= 0
NatChars(n) ==
  IF n < 10 THEN <<DecDigit[n + 1]>>
  ELSE NatChars(n \div 10) \o <<DecDigit[(n % 10) + 1]>>

\* getPathById without the upper bound of its range check.
getPathByIdNoUpperBound(id) ==
  IF ~IsInteger(id) \/ (id.kind = "int" /\ id.val < 0)
  THEN Fail(MkError("RangeError",
                    "Account ID must be a non-negative integer, got " \o NumText(id),
                    NoCause))
  ELSE Ok(ADDRESS_PREFIX
            \o (IF id.kind = "big"
                THEN <<"2", "1", "4", "7", "4", "8", "3", "6", "4", "8">>
                ELSE NatChars(id.val))
            \o <<"'">>)

\* getPathById(id): the path as its characters, or the RangeError.
getPathById(id) ==
  IF ~IsInteger(id) \/ id.kind = "big" \/ id.val < 0
  THEN Fail(MkError("RangeError",
                    "Account ID must be a non-negative integer, got " \o NumText(id),
                    NoCause))
  ELSE Ok(ADDRESS_PREFIX \o NatChars(id.val) \o <<"'">>)

\* new TextEncoder().encode(message), the message given as its code points:
\* UTF-8, a lone surrogate encoded as U+FFFD.
RECURSIVE TextEncode(_)
TextEncode(message) ==
  IF message = <<>> THEN <<>>
  ELSE LET cp == Head(message)
           bytes ==
             IF cp < 128 THEN <<cp>>
             ELSE IF cp < 2048 THEN <<192 + (cp \div 64), 128 + (cp % 64)>>
             ELSE IF cp >= 55296 /\ cp <= 57343 THEN <<239, 191, 189>>
             ELSE IF cp < 65536
             THEN <<224 + (cp \div 4096), 128 + ((cp \div 64) % 64), 128 + (cp % 64)>>
             ELSE <<240 + (cp \div 262144), 128 + ((cp \div 4096) % 64),
                    128 + ((cp \div 64) % 64), 128 + (cp % 64)>>
       IN bytes \o TextEncode(Tail(message))

LedgerSignOps ==
  {"signTransaction", "signOrder", "signSomeData", "signRequest", "signMessage"}

\* The operations that delegate to the engine inside try / catch.
DelegatedOps ==
  LedgerSignOps \cup {"getUserDataById", "getVersion", "getPaginationUsersData"}

\* The method whose try block the call is in.
InnerOp(call) == IF call.outer # "none" THEN "getUserDataById" ELSE call.op

\* The session fields stay as they are: no tryConnect() or disconnect() starts.
NoConnect == UNCHANGED <<conn, initTransportPromise, dccLibPromise>>

SetCall(u, call) == lcall' = [lcall EXCEPT ![u] = call]

\* getTransport() that reconnects whether an engine is cached or not.
GetTransportEnterAlwaysReconnects(u, call) ==
  /\ TryConnectEnter(FreeConn, "inline")
  /\ SetCall(u, [call EXCEPT !.pc = "gtAwaitConnect", !.conn = FreeConn,
                             !.cause = <<MkError("Error", "Not connected", NoCause)>>])

\* getTransport() up to its first await.  Without a _dccLibPromise it throws
\* and its catch calls tryConnect().  Sets lcall and the session fields.
GetTransportEnter(u, call) ==
  IF dccLibPromise = 0
  THEN /\ TryConnectEnter(FreeConn, "inline")
       /\ SetCall(u, [call EXCEPT !.pc = "gtAwaitConnect", !.conn = FreeConn,
                                  !.cause = <<MkError("Error", "Not connected", NoCause)>>])
  ELSE /\ SetCall(u, [call EXCEPT !.pc = "gtAwaitLib", !.lib = dccLibPromise])
       /\ NoConnect

\* The call record after the catch block of the method the call is in has
\* thrown e on.
Caught(call, e) ==
  IF call.outer = "none"
  THEN [call EXCEPT !.pc = "done", !.out = Fail(e)]
  ELSE [call EXCEPT !.pc = "catchOuter", !.caught = <<e>>]

\* The catch block without its second statement: the error is not recorded.
CatchErrorNotRecorded(u, call, e) ==
  /\ TryConnectEnter(FreeConn, "background")
  /\ UNCHANGED lastError
  /\ SetCall(u, Caught(call, e))

\* The catch block of a delegated operation: _backgroundReconnect(), which
\* runs tryConnect() up to its first await, then _error = e and throw e.
\* Sets lcall, the session fields and lastError.
Catch(u, call, e) ==
  /\ TryConnectEnter(FreeConn, "background")
  /\ lastError' = <<e>>
  /\ SetCall(u, Caught(call, e))

\* The try block from the engine on: the method of the engine runs up to its
\* first await; getUserDataById builds its path first.  Sets lcall, the
\* session fields, lastError and the variables of the engine.
Delegate(u, call, e) ==
  LET op == InnerOp(call)
      path == getPathById(call.id)
      running == [call EXCEPT !.pc = "engine"]
  IN IF op = "getUserDataById" /\ ~path.ok
     THEN /\ Catch(u, call, path.err[1])
          /\ UNCHANGED engineVars
     ELSE /\ SetCall(u, running)
          /\ NoConnect
          /\ UNCHANGED lastError
          /\ CASE op = "getUserDataById" ->
                    EngineInvoke(u, e, "getWalletPublicKey",
                                 [NoArgs EXCEPT !.path = path.val])
               [] op = "getVersion" -> EngineInvoke(u, e, "getVersion", NoArgs)
               [] op \in LedgerSignOps ->
                    EngineInvoke(u, e, op, [NoArgs EXCEPT !.path = path.val,
                                                          !.sData = call.sData])

(***************************************************************************)
(* DCCLedger: the public operations                                        *)
(***************************************************************************)
LedgerOps == DelegatedOps \cup {"probeDevice", "tryConnect", "disconnect"}

NoLedgerArgs ==
  [id |-> Num(0), sData |-> NoData, message |-> <<>>, from |-> Num(0),
   limit |-> Num(0)]

\* The range checks at the head of getPaginationUsersData.
PaginationRangeError(from, limit) ==
  IF ~IsInteger(from) \/ (from.kind = "int" /\ from.val < 0)
  THEN <<MkError("RangeError",
                 "'from' must be a non-negative integer, got " \o NumText(from),
                 NoCause)>>
  ELSE IF ~IsInteger(limit) \/ (limit.kind = "int" /\ limit.val < 0)
  THEN <<MkError("RangeError",
                 "'limit' must be a non-negative integer, got " \o NumText(limit),
                 NoCause)>>
  ELSE <<>>

\* The loop condition with an inclusive upper bound, id <= from + limit: one
\* round too many.
LoopGoesOnInclusive(done, limit) == limit.kind = "big" \/ done <= limit.val

\* The loop condition id < from + limit of getPaginationUsersData after done
\* rounds, where id = from + done: from and limit have passed the range
\* checks and the sums are exact, so it is done < limit.
LoopGoesOn(done, limit) == limit.kind = "big" \/ done < limit.val

\* id++ in the loop.  The loop never steps on from 0x80000000: getPathById
\* rejects it and the error leaves the loop.
NextId(id) ==
  IF id.kind = "int" /\ id.val < 2147483647 THEN Num(id.val + 1) ELSE TwoToThe31

\* What getUserDataById returns: { ...userData, id, path }
User(userData, id, path) ==
  [publicKey |-> userData.publicKey, address |-> userData.address,
   statusCode |-> userData.statusCode, id |-> id, path |-> path]

\* An operation is called and runs up to its first await, or to its end.
LedgerCall(u, op, args) ==
  LET call == [IdleLedgerCall EXCEPT
                 !.op = op, !.id = args.id, !.from = args.from,
                 !.limit = args.limit,
                 !.sData = IF op = "signMessage"
                           THEN [NoData EXCEPT !.dataBuffer = TextEncode(args.message)]
                           ELSE args.sData]
      path == getPathById(args.id)
      range == PaginationRangeError(args.from, args.limit)
  IN /\ lcall[u].pc = "idle"
     \* the behaviour still has a tryConnect() for the catch of the operation
     /\ FreeConn # 0
     /\ CASE op \in LedgerSignOps ->
               /\ IF ~path.ok
                  THEN SetCall(u, [call EXCEPT !.pc = "done", !.out = path])
                       /\ NoConnect
                  ELSE GetTransportEnter(u, call)
               /\ UNCHANGED lastError
          [] op \in {"getUserDataById", "getVersion"} ->
               /\ GetTransportEnter(u, call)
               /\ UNCHANGED lastError
          [] op = "getPaginationUsersData" ->
               /\ IF range # <<>>
                  THEN SetCall(u, [call EXCEPT !.pc = "done", !.out = Fail(range[1])])
                       /\ NoConnect
                  ELSE IF ~LoopGoesOn(0, args.limit)
                  THEN SetCall(u, [call EXCEPT !.pc = "done", !.out = Ok(<<>>)])
                       /\ NoConnect
                  ELSE GetTransportEnter(u, [call EXCEPT !.outer = op, !.id = args.from])
               /\ UNCHANGED lastError
          [] op = "probeDevice" ->
               /\ lastError' = <<>>
               /\ IF ~ready
                  THEN /\ TryConnectEnter(FreeConn, "probe")
                       /\ SetCall(u, [call EXCEPT !.pc = "probeAwaitConnect",
                                                  !.conn = FreeConn])
                  ELSE GetTransportEnter(u, [call EXCEPT !.outer = op, !.id = Num(1)])
          [] op = "tryConnect" ->
               /\ TryConnectEnter(FreeConn, "explicit")
               /\ SetCall(u, [call EXCEPT !.pc = "awaitConn", !.conn = FreeConn])
               /\ UNCHANGED lastError
          [] op = "disconnect" ->
               /\ DisconnectEnter(FreeConn, "disconnect", "explicit")
               /\ SetCall(u, [call EXCEPT !.pc = "awaitConn", !.conn = FreeConn])
               /\ UNCHANGED lastError
     /\ UNCHANGED <<options, ready, transport>>
     /\ UNCHANGED engineVars

\* tryConnect() or disconnect() called by a caller has settled.
LedgerConnAwaited(u) ==
  /\ lcall[u].pc = "awaitConn"
  /\ conn[lcall[u].conn].pc = "done"
  /\ SetCall(u, [lcall[u] EXCEPT !.pc = "done", !.out = conn[lcall[u].conn].out])
  /\ UNCHANGED <<options, ready, dccLibPromise, initTransportPromise, lastError,
                 transport, conn>>
  /\ UNCHANGED engineVars

\* probeDevice whose catch returns false without recording the error.
ProbeConnectedErrorNotRecorded(u) ==
  LET call == lcall[u]
      out == conn[call.conn].out
  IN /\ call.pc = "probeAwaitConnect"
     /\ conn[call.conn].pc = "done"
     /\ IF out.ok
        THEN GetTransportEnter(u, [call EXCEPT !.outer = "probeDevice", !.id = Num(1)])
        ELSE /\ SetCall(u, [call EXCEPT !.pc = "done", !.out = Ok(FALSE)])
             /\ NoConnect
     /\ UNCHANGED <<options, ready, transport, lastError>>
     /\ UNCHANGED engineVars

\* probeDevice: its tryConnect() has settled.  A rejection goes to the catch
\* of probeDevice; otherwise getUserDataById(1) starts.
ProbeConnected(u) ==
  LET call == lcall[u]
      out == conn[call.conn].out
  IN /\ call.pc = "probeAwaitConnect"
     /\ conn[call.conn].pc = "done"
     /\ IF out.ok
        THEN /\ GetTransportEnter(u, [call EXCEPT !.outer = "probeDevice", !.id = Num(1)])
             /\ UNCHANGED lastError
        ELSE /\ SetCall(u, [call EXCEPT !.pc = "done", !.out = Ok(FALSE)])
             /\ lastError' = out.err
             /\ NoConnect
     /\ UNCHANGED <<options, ready, transport>>
     /\ UNCHANGED engineVars

\* getTransport: the awaited _dccLibPromise has settled.  Resolved, the try
\* block of the operation goes on with the engine; rejected, the catch of
\* getTransport calls tryConnect().
GetTransportAwaited(u) ==
  LET call == lcall[u]
  IN /\ call.pc = "gtAwaitLib"
     /\ TransportSettled(call.lib)
     /\ IF transport[call.lib].st = "open"
        THEN Delegate(u, call, call.lib)
        ELSE /\ TryConnectEnter(FreeConn, "inline")
             /\ SetCall(u, [call EXCEPT !.pc = "gtAwaitConnect", !.conn = FreeConn,
                                        !.cause = transport[call.lib].err])
             /\ UNCHANGED lastError
             /\ UNCHANGED engineVars
     /\ UNCHANGED <<options, ready, transport>>

\* getTransport that takes the engine of its own connect only and throws when
\* another connect has replaced it.
GetTransportReconnectedOwnOnly(u) ==
  LET call == lcall[u]
      out == conn[call.conn].out
  IN /\ call.pc = "gtAwaitConnect"
     /\ conn[call.conn].pc = "done"
     /\ IF ~out.ok
        THEN Catch(u, call, out.err[1])
        ELSE IF dccLibPromise = 0 \/ dccLibPromise # conn[call.conn].own
        THEN Catch(u, call, MkError("Error", "Failed to reconnect to Ledger device",
                                    call.cause))
        ELSE /\ SetCall(u, [call EXCEPT !.pc = "gtAwaitLib2", !.lib = dccLibPromise])
             /\ NoConnect
             /\ UNCHANGED lastError
     /\ UNCHANGED <<options, ready, transport>>
     /\ UNCHANGED engineVars

\* getTransport: the tryConnect() of its catch has settled.  Its rejection
\* leaves getTransport as it is; after a success getTransport returns the
\* _dccLibPromise of the moment, or throws when there is none.
GetTransportReconnected(u) ==
  LET call == lcall[u]
      out == conn[call.conn].out
  IN /\ call.pc = "gtAwaitConnect"
     /\ conn[call.conn].pc = "done"
     /\ IF ~out.ok
        THEN Catch(u, call, out.err[1])
        ELSE IF dccLibPromise = 0
        THEN Catch(u, call, MkError("Error", "Failed to reconnect to Ledger device",
                                    call.cause))
        ELSE /\ SetCall(u, [call EXCEPT !.pc = "gtAwaitLib2", !.lib = dccLibPromise])
             /\ NoConnect
             /\ UNCHANGED lastError
     /\ UNCHANGED <<options, ready, transport>>
     /\ UNCHANGED engineVars

\* getTransport: the _dccLibPromise it returned from its catch has settled.
GetTransportReturned(u) ==
  LET call == lcall[u]
  IN /\ call.pc = "gtAwaitLib2"
     /\ TransportSettled(call.lib)
     /\ IF transport[call.lib].st = "open"
        THEN Delegate(u, call, call.lib)
        ELSE /\ Catch(u, call, transport[call.lib].err[1])
             /\ UNCHANGED engineVars
     /\ UNCHANGED <<options, ready, transport>>

\* The method the call is in returns value.  getPaginationUsersData goes on
\* with its loop, probeDevice returns true.  Sets lcall and the session fields.
Returned(u, call, value) ==
  LET usersData == Append(call.usersData, value)
      id == NextId(call.id)
  IN CASE call.outer = "none" ->
            /\ SetCall(u, [call EXCEPT !.pc = "done", !.out = Ok(value)])
            /\ NoConnect
       [] call.outer = "probeDevice" ->
            /\ SetCall(u, [call EXCEPT !.pc = "done", !.out = Ok(TRUE)])
            /\ NoConnect
       [] call.outer = "getPaginationUsersData" ->
            IF LoopGoesOn(Len(usersData), call.limit)
            THEN GetTransportEnter(u, [call EXCEPT !.id = id, !.usersData = usersData])
            ELSE /\ SetCall(u, [call EXCEPT !.pc = "done", !.usersData = usersData,
                                            !.out = Ok(usersData)])
                 /\ NoConnect

\* The method of the engine has settled: its value is returned, its error
\* goes to the catch block.
EngineSettled(u) ==
  LET call == lcall[u]
      out == ecall[u].out
  IN /\ call.pc = "engine"
     /\ ecall[u].pc = "done"
     /\ ecall' = [ecall EXCEPT ![u] = IdleCall]
     /\ IF out.ok
        THEN /\ Returned(u, call,
                         IF InnerOp(call) = "getUserDataById"
                         THEN User(out.val, call.id, getPathById(call.id).val)
                         ELSE out.val)
             /\ UNCHANGED lastError
        ELSE Catch(u, call, out.err[1])
     /\ UNCHANGED <<options, ready, transport, version, networkCode>>

\* The catch block of getPaginationUsersData that gives up the error and
\* returns the records derived so far.
OuterCatchReturnsPartial(u) ==
  LET call == lcall[u]
      e == call.caught[1]
  IN /\ call.pc = "catchOuter"
     /\ IF call.outer = "probeDevice"
        THEN /\ SetCall(u, [call EXCEPT !.pc = "done", !.out = Ok(FALSE)])
             /\ lastError' = <<e>>
             /\ NoConnect
        ELSE /\ TryConnectEnter(FreeConn, "background")
             /\ lastError' = <<e>>
             /\ SetCall(u, [call EXCEPT !.outer = "none", !.pc = "done",
                                        !.out = Ok(call.usersData)])
     /\ UNCHANGED <<options, ready, transport>>
     /\ UNCHANGED engineVars

\* The catch block of getPaginationUsersData or probeDevice, reached by the
\* error getUserDataById has thrown on.
OuterCatch(u) ==
  LET call == lcall[u]
      e == call.caught[1]
  IN /\ call.pc = "catchOuter"
     /\ IF call.outer = "probeDevice"
        THEN /\ SetCall(u, [call EXCEPT !.pc = "done", !.out = Ok(FALSE)])
             /\ lastError' = <<e>>
             /\ NoConnect
        ELSE Catch(u, [call EXCEPT !.outer = "none"], e)
     /\ UNCHANGED <<options, ready, transport>>
     /\ UNCHANGED engineVars

\* The caller takes the result of its operation.
LedgerReturn(u) ==
  /\ lcall[u].pc = "done"
  /\ SetCall(u, IdleLedgerCall)
  /\ UNCHANGED <<options, ready, dccLibPromise, initTransportPromise, lastError,
                 transport, conn>>
  /\ UNCHANGED engineVars

(***************************************************************************)
(* Spec: one DCCLedger from its construction on.                           *)
(***************************************************************************)
\* networkCode of an engine that has not been constructed.
Unconstructed == 0 - 1

\* The options of the instance: the network code and the exchange timeout.
LedgerOptions ==
  { [networkCode |-> MAIN_NET_CODE, exchangeTimeout |-> Undefined],
    [networkCode |-> 84, exchangeTimeout |-> Some(0)] }

\* The payload the callers sign and the message of signMessage.
LedgerPayload ==
  [NoData EXCEPT !.dataBuffer = <<1, 2, 3>>, !.dataType = 4, !.dataVersion = 2]
LedgerMessage == <<79, 75>>

\* The arguments the callers pass.
LedgerArgs ==
  { [NoLedgerArgs EXCEPT !.id = id, !.sData = LedgerPayload,
                         !.message = LedgerMessage] : id \in {Num(0), Num(0 - 1)} }
PaginationArgs ==
  { [NoLedgerArgs EXCEPT !.from = Num(r[1]), !.limit = Num(r[2])] :
      r \in {<<0, 2>>, <<0, 0>>, <<0 - 1, 1>>, <<0, 0 - 1>>, <<2147483647, 2>>} }

\* Answers of the device: to the key request a key and an address with the
\* status OK, and an error status; to the version query; to a signing chunk.
LedgerKeyReplies ==
  { [i \in 1..69 |-> IF i <= 32 THEN i ELSE IF i <= 67 THEN 51 + (i % 5)
                     ELSE IF i = 68 THEN 144 ELSE 0],
    <<105, 133>> }
LedgerVersionReplies == { <<1, 2, 0, 144, 0>>, <<105, 133>> }
LedgerChunkReplies == { <<7, 9, 144, 0>>, <<105, 133>> }

\* The state the constructor leaves: no session, and its tryConnect() at its
\* first await, disconnect() having found nothing to close.
Init ==
  /\ options \in LedgerOptions
  /\ ready = FALSE
  /\ dccLibPromise = 0
  /\ initTransportPromise = 0
  /\ lastError = <<>>
  /\ transport = [t \in EngIds |-> NoTransport]
  /\ conn = [k \in ConnIds |->
               IF k = 1
               THEN [IdleConn EXCEPT !.kind = "tryConnect", !.pc = "afterDisc",
                                     !.origin = "constructor"]
               ELSE IdleConn]
  /\ lcall = [u \in Users |-> IdleLedgerCall]
  /\ version = [e \in EngIds |-> VersionNull]
  /\ networkCode = [e \in EngIds |-> Unconstructed]
  /\ ecall = [c \in Calls |-> IdleCall]

Next ==
  \/ \E u \in Users, op \in LedgerOps \ {"getPaginationUsersData"}, args \in LedgerArgs :
       LedgerCall(u, op, args)
  \/ \E u \in Users, args \in PaginationArgs :
       LedgerCall(u, "getPaginationUsersData", args)
  \/ \E u \in Users : LedgerConnAwaited(u)
  \/ \E u \in Users : ProbeConnected(u)
  \/ \E u \in Users : GetTransportAwaited(u)
  \/ \E u \in Users : GetTransportReconnected(u)
  \/ \E u \in Users : GetTransportReturned(u)
  \/ \E u \in Users : EngineSettled(u)
  \/ \E u \in Users : OuterCatch(u)
  \/ \E u \in Users : LedgerReturn(u)
  \/ \E k \in ConnIds : DisconnectAwaited(k)
  \/ \E k \in ConnIds : DisconnectClosed(k)
  \/ \E k \in ConnIds : ConnectInit(k)
  \/ \E k \in ConnIds : ConnectSettled(k)
  \/ \E t \in EngIds : TransportOpens(t)
  \/ \E t \in EngIds : TransportFails(t)
  \/ \E u \in Users : DeviceKeyReply(u, LedgerKeyReplies)
  \/ \E u \in Users : DeviceChunkReply(u, LedgerChunkReplies)
  \/ \E e \in EngIds : DeviceVersionReply(e, LedgerVersionReplies)
  \/ \E u \in Users : VersionResume(u)

Spec == Init /\ [][Next]_vars

(***************************************************************************)
(* Claims about the error handling of the operations                       *)
(***************************************************************************)
\* The error thrown inside the try block of the method caller u is in, in the
\* step the caller takes next; empty when that step throws nothing.
FailureOf(u) ==
  LET call == lcall[u]
      path == getPathById(call.id)
      badPath == InnerOp(call) = "getUserDataById" /\ ~path.ok
  IN CASE call.pc = "engine" /\ ecall[u].pc = "done" /\ ~ecall[u].out.ok ->
            ecall[u].out.err
       [] call.pc = "gtAwaitConnect" /\ conn[call.conn].pc = "done" ->
            IF ~conn[call.conn].out.ok THEN conn[call.conn].out.err
            ELSE IF dccLibPromise = 0
            THEN <<MkError("Error", "Failed to reconnect to Ledger device", call.cause)>>
            ELSE <<>>
       [] call.pc = "gtAwaitLib2" /\ transport[call.lib].st = "failed" ->
            transport[call.lib].err
       [] call.pc \in {"gtAwaitLib", "gtAwaitLib2"}
            /\ transport[call.lib].st = "open" /\ badPath -> path.err
       [] call.pc = "catchOuter" -> call.caught
       [] OTHER -> <<>>

\* In this step the delegated operation of caller u ends with an error.
OpFails(u) ==
  /\ lcall[u].pc # "done"
  /\ lcall'[u].pc = "done"
  /\ lcall'[u].op \in DelegatedOps
  /\ ~lcall'[u].out.ok

\* In this step a background reconnect starts.
BackgroundReconnectScheduled ==
  \E k \in ConnIds :
    /\ conn[k].kind = "none"
    /\ conn'[k].kind = "tryConnect"
    /\ conn'[k].origin = "background"

\* An error thrown in the try block of caller u is never swallowed or
\* replaced: the step ends the method with that error.
ErrorRethrown(u) ==
  (FailureOf(u) # <<>> /\ lcall'[u] # lcall[u] /\ lcall[u].op \in DelegatedOps)
    => IF lcall[u].outer = "getPaginationUsersData" /\ lcall[u].pc # "catchOuter"
       THEN lcall'[u].pc = "catchOuter" /\ lcall'[u].caught = FailureOf(u)
       ELSE lcall'[u].pc = "done" /\ lcall'[u].out = Fail(FailureOf(u)[1])

\* C7 as claimed: whenever a delegated operation fails, the caller gets the
\* error that caused the failure, getLastError() returns that error right
\* after the failure, and a background reconnect has been started.
C7_EveryFailureRecorded ==
  [][\A u \in Users :
       /\ ErrorRethrown(u)
       /\ OpFails(u) =>
            /\ lastError' = lcall'[u].out.err
            /\ BackgroundReconnectScheduled]_vars

\* C7 amended: whenever a delegated operation fails inside its try block,
\* that is for any reason but an account index rejected by a sign method or
\* a range rejected by getPaginationUsersData, the caller gets the error that
\* caused the failure, getLastError() returns that error right after the
\* failure, and a background reconnect has been started.
C7_FailureInTryRecorded ==
  [][\A u \in Users :
       /\ ErrorRethrown(u)
       /\ (OpFails(u) /\ lcall[u].pc # "idle") =>
            /\ lastError' = lcall'[u].out.err
            /\ BackgroundReconnectScheduled]_vars

\* signTransaction has failed on the error status of the device: the caller
\* holds that error, it is the last error, and a background reconnect runs.
C7_Witness ==
  /\ lcall[1].op = "signTransaction"
  /\ lcall[1].pc = "done"
  /\ lcall[1].out = Fail(StatusError([error |-> "Conditions not satisfied",
                                      status |-> 27013]))
  /\ lastError = lcall[1].out.err
  /\ \E k \in ConnIds : conn[k].origin = "background" /\ conn[k].pc # "done"

(***************************************************************************)
(* Claims about the session                                                *)
(***************************************************************************)
\* The transports the factory has handed out, or is about to, on which
\* close() has not been called.
OutstandingTransports ==
  { t \in EngIds : transport[t].st \in {"pending", "open"} /\ transport[t].close = "no" }

\* C8: at every moment at most one transport obtained from the factory is
\* outstanding (open or being opened, and close() not called on it); close()
\* has been called on every other transport the instance obtained.
C8_OneOutstandingTransport == Cardinality(OutstandingTransports) <= 1

\* In this step tryConnect() call k asks the factory for a transport.
CreateInvoked(k) == conn[k].pc = "afterDisc" /\ conn'[k].pc = "awaitAll"

\* In this step tryConnect() call k resolves / rejects.
ConnectResolves(k) ==
  conn[k].pc = "awaitAll" /\ conn'[k].pc = "done" /\ conn'[k].out.ok
ConnectRejects(k) ==
  conn[k].pc = "awaitAll" /\ conn'[k].pc = "done" /\ ~conn'[k].out.ok

\* C9: a tryConnect() call asks the factory for a transport only after the
\* close() of the transport that was current when it was called has settled;
\* when its create() has succeeded the call resolves with ready = true, with
\* the engine on its new, open transport as the current one, constructed
\* with the configured network code, and with setExchangeTimeout called on
\* that transport exactly when an exchange timeout is configured.
C9_ConnectTearsDownThenInstalls ==
  [][\A k \in ConnIds :
       /\ CreateInvoked(k) =>
            ((conn[k].tp # 0 /\ transport[conn[k].tp].st = "open")
               => transport[conn[k].tp].close = "done")
       /\ ConnectResolves(k) =>
            /\ ready'
            /\ dccLibPromise' = conn[k].own
            /\ transport'[conn[k].own].st = "open"
            /\ transport'[conn[k].own].close = "no"
            /\ networkCode'[conn[k].own] = options.networkCode
            /\ transport'[conn[k].own].timeouts
                 = (IF options.exchangeTimeout = Undefined THEN <<>>
                    ELSE <<options.exchangeTimeout[1]>>)]_vars

\* C10: when the create() of a tryConnect() call fails, the call rejects
\* with 'Failed to connect to Ledger device' whose cause is the error of
\* create(), and the manager is disconnected: ready is false and no engine
\* is current, that is no _dccLibPromise that has resolved to an engine.
C10_FailedConnectLeavesDisconnected ==
  [][\A k \in ConnIds :
       ConnectRejects(k) =>
         /\ conn'[k].out = Fail(ConnectError(transport[conn[k].own].err[1]))
         /\ ready' = FALSE
         /\ \/ dccLibPromise' = 0
            \/ transport'[dccLibPromise'].st # "open"]_vars

\* In this step disconnect() call k returns to its caller.
DisconnectReturns(k) ==
  /\ conn'[k].kind = "disconnect"
  /\ conn[k].pc # "done"
  /\ conn'[k].pc = "done"

\* C11: when disconnect() returns, no transport and no engine are cached,
\* close() has been invoked on the transport that was current when it was
\* called, if that transport had opened, and disconnect() has not failed,
\* whether the pending open or close() failed or not.
C11_DisconnectLeavesNothingCached ==
  [][\A k \in ConnIds :
       DisconnectReturns(k) =>
         /\ conn'[k].out = Ok(<<>>)
         /\ initTransportPromise' = 0
         /\ dccLibPromise' = 0
         /\ (conn'[k].tp # 0 /\ transport'[conn'[k].tp].st = "open")
              => transport'[conn'[k].tp].close # "no"]_vars

(***************************************************************************)
(* Claims about getTransport                                               *)
(***************************************************************************)
\* In this step a tryConnect() or disconnect() call starts.
ConnStarted == \E k \in ConnIds : conn[k].kind = "none" /\ conn'[k].kind # "none"

\* In this step caller u enters getTransport() / starts the inline connect
\* of getTransport() / hands its request to the engine.
GetTransportEntered(u) ==
  /\ lcall[u].pc \in {"idle", "engine", "probeAwaitConnect"}
  /\ lcall'[u].pc \in {"gtAwaitLib", "gtAwaitConnect"}
InlineConnectStarted(u) ==
  lcall[u].pc # "gtAwaitConnect" /\ lcall'[u].pc = "gtAwaitConnect"
EngineStarted(u) == lcall[u].pc # "engine" /\ lcall'[u].pc = "engine"

\* In this step the method caller u is in takes its catch block.
OpCaught(u) ==
  \/ lcall'[u].pc = "done" /\ ~lcall'[u].out.ok
  \/ lcall'[u].pc = "catchOuter"

\* C12: an operation that finds no cached engine connects inline and hands
\* nothing to the engine before that connect has completed; an operation
\* that finds a cached engine awaits it and, once it has opened, uses that
\* very engine; apart from the inline connect for a missing or failed engine
\* an operation starts a connect, and so causes a create() or a close(),
\* only when it fails.
C12_InlineConnectOnlyWithoutEngine ==
  [][\A u \in Users :
       (lcall'[u] # lcall[u] /\ lcall'[u].op \in DelegatedOps) =>
         /\ GetTransportEntered(u) =>
              IF dccLibPromise = 0
              THEN InlineConnectStarted(u) /\ ecall'[u].pc = "idle"
              ELSE /\ lcall'[u].pc = "gtAwaitLib"
                   /\ lcall'[u].lib = dccLibPromise
                   /\ ~ConnStarted
         /\ InlineConnectStarted(u) =>
              \/ dccLibPromise = 0
              \/ lcall[u].pc = "gtAwaitLib" /\ transport[lcall[u].lib].st = "failed"
         /\ EngineStarted(u) =>
              /\ ecall[u].pc = "idle"
              /\ ecall'[u].eng = lcall[u].lib
              /\ transport[lcall[u].lib].st = "open"
              /\ lcall[u].pc = "gtAwaitLib2" =>
                   conn[lcall[u].conn].pc = "done" /\ conn[lcall[u].conn].out.ok
              /\ ~ConnStarted
              /\ transport' = transport
         /\ (ConnStarted /\ ~InlineConnectStarted(u)) => OpCaught(u)]_vars

\* getVersion found no engine, connected inline and then got the version
\* from the engine of that connect.
C12_Witness ==
  /\ lcall[1].op = "getVersion"
  /\ lcall[1].pc = "done"
  /\ lcall[1].out = Ok(<<1, 2, 0>>)
  /\ lcall[1].conn # 0
  /\ conn[lcall[1].conn].origin = "inline"
  /\ conn[lcall[1].conn].out.ok

(***************************************************************************)
(* Claims about the background reconnect                                   *)
(***************************************************************************)
\* tryConnect() call k was started by _backgroundReconnect().
IsBackground(k) == conn[k].kind = "tryConnect" /\ conn[k].origin = "background"

\* A rejected promise of call k has no rejection handler: the promise of the
\* call itself, or the transport or engine promise of its create().
UnhandledRejection(k) ==
  \/ conn[k].pc = "done" /\ ~conn[k].out.ok /\ ~conn[k].handled
  \/ /\ conn[k].own # 0
     /\ transport[conn[k].own].st = "failed"
     /\ ~(transport[conn[k].own].tpHandled /\ transport[conn[k].own].libHandled)

ProbeFailure(u) ==
  IF lcall[u].pc = "probeAwaitConnect"
  THEN IF conn[lcall[u].conn].pc = "done" /\ ~conn[lcall[u].conn].out.ok
       THEN conn[lcall[u].conn].out.err ELSE <<>>
  ELSE FailureOf(u)

\* C14: probeDevice() never propagates an error.  It starts by clearing the
\* last error; a failure of its getUserDataById(1) reaches its catch
\* unchanged; it ends with true or false, with false exactly when its connect
\* or its derivation failed, and then the last error is that failure; its
\* steps that meet no failure leave the last error as it is, so that it is
\* still null after true when no other operation has run.
C14_ProbeDeviceReturnsBoolean ==
  [][\A u \in Users :
       /\ (lcall[u].pc = "idle" /\ lcall'[u].op = "probeDevice") =>
            lastError' = <<>> /\ lcall'[u].pc # "done"
       /\ (lcall[u].op = "probeDevice" /\ lcall[u].pc # "done"
             /\ lcall'[u] # lcall[u]) =>
            LET failure == ProbeFailure(u)
            IN /\ (failure # <<>> /\ lcall[u].pc \notin {"probeAwaitConnect", "catchOuter"})
                    => lcall'[u].pc = "catchOuter" /\ lcall'[u].caught = failure
               /\ failure = <<>> => lastError' = lastError /\ lcall'[u].pc # "catchOuter"
               /\ lcall'[u].pc = "done" =>
                    /\ lcall'[u].out \in {Ok(TRUE), Ok(FALSE)}
                    /\ lcall'[u].out = Ok(FALSE) <=> failure # <<>>
                    /\ failure # <<>> => lastError' = failure]_vars

\* probeDevice has returned true after an earlier operation had failed and
\* left its error: the last error is null again.
C14_Witness ==
  /\ lcall[1].op = "probeDevice"
  /\ lcall[1].pc = "done"
  /\ lcall[1].out = Ok(TRUE)
  /\ lastError = <<>>
  /\ \E k \in ConnIds : IsBackground(k)

(***************************************************************************)
(* SpecKey: one caller derives keys, and he and the others query the       *)
(* version and sign, on one engine.                                        *)
(***************************************************************************)
\* An answer to the key request: 32 key bytes, 35 address bytes, then rest.
KeyReply(key, address, rest) ==
  [i \in 1..PUBLIC_KEY_LENGTH |-> key[i]]
    \o [i \in 1..ADDRESS_LENGTH |-> address[i]] \o rest

\* Key bytes 1..32 and 32 zero bytes; an address of printable characters and
\* one with a byte above 0x7F.
KeyBytes == { [i \in 1..32 |-> i], [i \in 1..32 |-> 0] }
AsciiAddress == [i \in 1..35 |-> 51 + (i % 5)]
NonAsciiAddress == [AsciiAddress EXCEPT ![20] = 200]

\* Answers of the device to the key request: of 69 bytes with the status OK,
\* with a known and an unknown error status, with an address that is not
\* ASCII; of 71 bytes; answers shorter than 69 bytes that hold a status word
\* only; nothing; 68 bytes that end with the status OK or with an error.
KeyReplies ==
  { KeyReply(key, AsciiAddress, <<144, 0>>) : key \in KeyBytes }
    \cup { KeyReply(key, AsciiAddress, <<105, 133>>) : key \in KeyBytes }
    \cup { KeyReply([i \in 1..32 |-> i], AsciiAddress, <<18, 52>>),
           KeyReply([i \in 1..32 |-> i], NonAsciiAddress, <<144, 0>>),
           KeyReply([i \in 1..32 |-> i], NonAsciiAddress, <<105, 133>>),
           KeyReply([i \in 1..32 |-> i], AsciiAddress, <<9, 9, 144, 0>>),
           <<105, 133>>, <<144, 0>>, <<>>,
           [i \in 1..66 |-> 1 + (i % 7)] \o <<144, 0>>,
           [i \in 1..66 |-> 1 + (i % 7)] \o <<105, 133>> }

CallGetWalletPublicKey(c) ==
  \E path \in EnginePaths, verify \in BOOLEAN :
    EngineCall(c, 1, "getWalletPublicKey",
               [NoArgs EXCEPT !.path = path, !.verify = verify])

NextKey ==
  \/ CallGetWalletPublicKey(1)
  \/ DeviceKeyReply(1, KeyReplies)
  \/ \E c \in Calls : CallGetVersion(c)
  \/ \E c \in Calls : CallSignTransaction(c)
  \/ DeviceVersionReply(1, VersionReplies)
  \/ \E c \in Calls : VersionResume(c)
  \/ \E c \in Calls : DeviceChunkReply(c, ChunkReplies)
  \/ \E c \in Calls : EngineReturn(c)

SpecKey == InitEngine /\ [][NextKey]_vars

(***************************************************************************)
(* Claims about the status word                                            *)
(***************************************************************************)
\* The error a status word other than 0x9000 is to give: the message of the
\* table, or the generated one for a code the table does not hold, and the
\* code in the cause.
ExpectedStatusError(sw) ==
  LET message == IF sw \in STATUS_CODES THEN STATUS_MESSAGES(sw)
                 ELSE "Unknown error (0x" \o PadStart(NatToHex(sw), 4) \o ")"
  IN MkError("Error", message, <<[error |-> message, status |-> sw]>>)

\* The answer call c receives in this step, as a sequence of one answer;
\* empty when the step brings none.
AnswerTo(c) ==
  IF ecall[c].pc \in {"awaitKey", "awaitChunk"}
       /\ Len(ecall'[c].acks) = Len(ecall[c].acks) + 1
  THEN <<ecall'[c].acks[Len(ecall'[c].acks)]>>
  ELSE <<>>

\* The call that receives in this step an answer that ends with a status
\* word, two bytes, other than 0x9000 fails with the error of that status
\* word.
BadStatusFails(c) ==
  (AnswerTo(c) # <<>> /\ Len(AnswerTo(c)[1]) >= 2
     /\ StatusWord(AnswerTo(c)[1]) # SW_OK) =>
    /\ ecall'[c].pc = "done"
    /\ ecall'[c].out = Fail(ExpectedStatusError(StatusWord(AnswerTo(c)[1])))

\* The version query: an answer with a status word other than 0x9000 is
\* never kept as the version; when the query settles without leaving a
\* version, every call that awaits it fails, and with the error of a status
\* word the device can answer, unless the transport rejected.
BadVersionStatusFails ==
  /\ (version[1].st = "pending" /\ version'[1].st = "resolved")
       => StatusWord(version'[1].val) = SW_OK
  /\ (version[1].st = "pending" /\ version'[1].st = "null") =>
       \A c \in Calls :
         ecall[c].pc = "awaitVersion" =>
           /\ ecall'[c].pc = "done"
           /\ \/ \E x \in TransportErrors : ecall'[c].out = Fail(x)
              \/ \E r \in VersionReplies :
                   /\ StatusWord(r) # SW_OK
                   /\ ecall'[c].out = Fail(ExpectedStatusError(StatusWord(r)))

\* C15 as claimed: whenever the answer of the device to a key request, a
\* version query or a signing chunk ends with a status word other than
\* 0x9000, the operation fails with the error of that status word: its
\* message is the description of the status word, its cause carries the code.
C15_BadStatusAlwaysMapped ==
  [][BadVersionStatusFails /\ \A c \in Calls : BadStatusFails(c)]_vars

\* C15 amended: the same for the version query, for a signing chunk, and for
\* an answer to the key request of at least 69 bytes; a shorter answer to
\* the key request fails as an invalid response whatever its status word.
C15_BadStatusMappedUnlessShortKeyReply ==
  [][/\ BadVersionStatusFails
     /\ \A c \in Calls :
          IF ecall[c].pc = "awaitKey" /\ AnswerTo(c) # <<>>
               /\ Len(AnswerTo(c)[1]) < 69
          THEN /\ ecall'[c].pc = "done"
               /\ ecall'[c].out =
                    Fail(MkError("Error",
                                 "Invalid response: expected at least 69 bytes, got "
                                   \o NumToString(Len(AnswerTo(c)[1])), NoCause))
          ELSE BadStatusFails(c)]_vars

\* The key request was answered with 69 bytes that end with 0x6985 and the
\* call has failed with 'Conditions not satisfied' and the code in the cause.
C15_Witness ==
  /\ ecall[1].op = "getWalletPublicKey"
  /\ ecall[1].pc = "done"
  /\ Len(ecall[1].acks) = 1
  /\ Len(ecall[1].acks[1]) = 69
  /\ SliceLast(ecall[1].acks[1], 2) = <<105, 133>>
  /\ ecall[1].out =
       Fail(MkError("Error", "Conditions not satisfied",
                    <<[error |-> "Conditions not satisfied", status |-> 27013]>>))

(***************************************************************************)
(* Claims about getWalletPublicKey                                         *)
(***************************************************************************)
\* C16: a getWalletPublicKey(path, verify) call with a path that can be
\* encoded sends exactly one exchange: class 0x80, instruction 0x04, P1 0x80
\* with verify and 0x00 without, P2 the network code of the engine, and the
\* encoded path as payload.  When the answer has at least 69 bytes and ends
\* with 0x9000, the call fails if one of the bytes 32..66 is above 0x7F and
\* returns otherwise the Base58 text of bytes 0..31 as publicKey, the
\* characters of bytes 32..66 as address and, as statusCode, the hexadecimal
\* text of the last two bytes, which is "9000".
C16_KeyRequestAndDecoding ==
  \A c \in Calls :
    (ecall[c].op = "getWalletPublicKey" /\ splitPath(ecall[c].path).ok) =>
      /\ ecall[c].sent =
           << [cla |-> 128, ins |-> 4,
               p1 |-> IF ecall[c].verify THEN 128 ELSE 0,
               p2 |-> networkCode[ecall[c].eng],
               data |-> splitPath(ecall[c].path).val] >>
      /\ (ecall[c].pc = "done" /\ ecall[c].acks # <<>>) =>
           LET response == ecall[c].acks[1]
               n == Len(response)
               key == [i \in 1..32 |-> response[i]]
               address == [i \in 1..35 |-> response[32 + i]]
           IN (n >= 69 /\ response[n - 1] = 144 /\ response[n] = 0) =>
                IF \E i \in 1..35 : address[i] > 127
                THEN ~ecall[c].out.ok
                ELSE /\ ecall[c].out.ok
                     /\ ecall[c].out.val.publicKey = base58Encode(key)
                     /\ ecall[c].out.val.address = FromCharCodes(address)
                     /\ ecall[c].out.val.statusCode = "9000"
                     /\ ecall[c].out.val.statusCode
                          = bytesToHex(<<response[n - 1], response[n]>>)

\* The key of account 0 was asked for with verify, on the main network, and
\* the device answered 71 bytes: the request and the decoded answer.
C16_Witness ==
  /\ ecall[1].op = "getWalletPublicKey"
  /\ ecall[1].pc = "done"
  /\ ecall[1].verify
  /\ ecall[1].sent =
       << [cla |-> 128, ins |-> 4, p1 |-> 128, p2 |-> 76,
           data |-> <<128, 0, 0, 44, 128, 87, 155, 252,
                      128, 0, 0, 0, 128, 0, 0, 0, 128, 0, 0, 0>>] >>
  /\ Len(ecall[1].acks) = 1
  /\ Len(ecall[1].acks[1]) = 71
  /\ ecall[1].out =
       Ok([publicKey |-> "4wBqpZM9xaSheZzJSMawUKKwhdpChKbZ5eu5ky4Vigw",
           address |-> "45673456734567345673456734567345673",
           statusCode |-> "9000"])

(***************************************************************************)
(* Claims about the signature _signData returns                            *)
(***************************************************************************)
\* C17: a _signData call that has ended with every chunk it sent answered
\* with the status OK returns the Base58 text of the last answer without
\* its two status bytes, or fails with 'Device returned an empty signature'
\* when nothing is left of that answer; the answers before the last have no
\* part in the result.
C17_SignatureFromFinalAnswer ==
  \A c \in Calls :
    (ecall[c].pc = "done" /\ ecall[c].acks # <<>>
       /\ Len(ecall[c].acks) = Len(SignChunks(c)) /\ AllAcksOk(c)) =>
      LET last == ecall[c].acks[Len(ecall[c].acks)]
          signature == [i \in 1..(Len(last) - 2) |-> last[i]]
      IN IF Len(last) <= 2
         THEN ecall[c].out =
                Fail(MkError("Error", "Device returned an empty signature", NoCause))
         ELSE ecall[c].out = Ok(base58Encode(signature))

\* The first of two chunks was answered with the bytes 7 and 9 before its
\* status and the last with bytes 7 and 9 too: the signature is their
\* Base58 text once, not twice.
C17_Witness ==
  \E c \in Calls :
    /\ ecall[c].pc = "done"
    /\ ecall[c].acks = << <<7, 9, 144, 0>>, <<7, 9, 144, 0>> >>
    /\ ecall[c].out = Ok("Y4")

(***************************************************************************)
(* Claims about the range errors                                           *)
(***************************************************************************)
\* The operations that take an account index.
IndexedOps == LedgerSignOps \cup {"getUserDataById"}

\* C18: an operation called with an account index that is not an integer in
\* [0, 0x7FFFFFFF] fails with the RangeError of getPathById before any
\* transport I/O: it ends in the step in which it is called, and no
\* tryConnect(), so no create() and no close(), is started by it.
C18_BadIndexFailsBeforeIo ==
  [][\A u \in Users :
       (lcall[u].pc = "idle" /\ lcall'[u].op \in IndexedOps
          /\ ~getPathById(lcall'[u].id).ok) =>
         /\ lcall'[u].pc = "done"
         /\ lcall'[u].out = getPathById(lcall'[u].id)
         /\ lcall'[u].out.err[1].type = "RangeError"
         /\ ~ConnStarted
         /\ UNCHANGED <<transport, ecall, lastError>>]_vars

(***************************************************************************)
(* SpecStamp: one caller signs with each of the five methods, with fields  *)
(* inside and outside [0, 255], on an engine that starts without a version. *)
(***************************************************************************)
StampPayloads ==
  { [dataBuffer |-> <<10, 20, 30>>, dataType |-> dataType,
     dataVersion |-> dataVersion, amountPrecision |-> ap,
     amount2Precision |-> a2p, feePrecision |-> fp] :
      dataType \in {4, 300}, dataVersion \in {1, 256},
      ap \in {Undefined, Some(6), Some(256)},
      a2p \in {Undefined, Some(3), Some(0 - 1)},
      fp \in {Undefined, Some(2), Some(256)} }

\* Versions of the three layouts, and an error status.
StampVersionReplies ==
  { <<1, 2, 0, 144, 0>>, <<1, 1, 0, 144, 0>>, <<1, 0, 0, 144, 0>>, <<105, 133>> }
StampChunkReplies == { <<7, 9, 144, 0>>, <<105, 133>> }

CallSign(c) ==
  \E op \in SignOps, sData \in StampPayloads :
    EngineCall(c, 1, op, [NoArgs EXCEPT !.path = ADDRESS_PREFIX \o <<"0", "'">>,
                                        !.sData = sData])

NextStamp ==
  \/ CallSign(1)
  \/ DeviceVersionReply(1, StampVersionReplies)
  \/ VersionResume(1)
  \/ DeviceChunkReply(1, StampChunkReplies)
  \/ EngineReturn(1)

SpecStamp == InitEngine /\ [][NextStamp]_vars

(***************************************************************************)
(* Claims about the fields of a signing payload                            *)
(***************************************************************************)
\* One of the five bytes _fillDataForSign checks is outside [0, 255]; sData
\* is the payload the signing method hands to _fillDataForSign.
FieldOutOfRange(sData) ==
  \E v \in { OrElse(sData.amountPrecision, DCC_PRECISION),
             OrElse(sData.amount2Precision, 0),
             OrElse(sData.feePrecision, DCC_PRECISION),
             sData.dataType, sData.dataVersion } :
    v < 0 \/ v > 255

\* C19: a signing call whose amountPrecision, amount2Precision, feePrecision,
\* dataType or dataVersion is outside [0, 255] fails with a RangeError before
\* any exchange is issued for it, the version query included: the call has
\* sent nothing, and it has ended with a RangeError.
C19_BadFieldFailsBeforeIo ==
  \A c \in Calls :
    (ecall[c].op \in SignOps /\ FieldOutOfRange(ecall[c].sData)) =>
      /\ ecall[c].sent = <<>>
      /\ ecall[c].pc = "done"
      /\ ~ecall[c].out.ok
      /\ ecall[c].out.err[1].type = "RangeError"

\* The five bytes between the path and the data of the payload call c has
\* sent, by the layout of the version the engine holds: the layout of
\* firmware 1.2.0 and later has the amount2Precision byte, the others not.
WireFields(c) ==
  LET data == ConcatData(SignChunks(c))
      v == version[ecall[c].eng].val
      fwVersion == v[1] * 10000 + v[2] * 100 + v[3]
  IN IF fwVersion >= 10200
     THEN [amountPrecision |-> data[21], amount2Precision |-> <<data[22]>>,
           feePrecision |-> data[23], dataType |-> data[24],
           dataVersion |-> data[25]]
     ELSE [amountPrecision |-> data[21], amount2Precision |-> <<>>,
           feePrecision |-> data[22], dataType |-> data[23],
           dataVersion |-> data[24]]

\* The type code each signing method is to send.
TypeCodeOf(c) ==
  CASE ecall[c].op = "signTransaction" -> ecall[c].given.dataType
    [] ecall[c].op = "signOrder" -> 252
    [] ecall[c].op = "signSomeData" -> 253
    [] ecall[c].op = "signRequest" -> 254
    [] ecall[c].op = "signMessage" -> 255

\* C20 as claimed: each signing method sends its type code in the dataType
\* byte whatever the caller passed, signTransaction the dataType of the
\* caller; signOrder, signSomeData, signRequest and signMessage send 0 in
\* the precision bytes and in the version byte.
C20_NonTransactionFieldsZeroed ==
  \A c \in Calls :
    (ecall[c].op \in SignOps /\ SignChunks(c) # <<>>) =>
      /\ WireFields(c).dataType = TypeCodeOf(c)
      /\ ecall[c].op # "signTransaction" =>
           /\ WireFields(c).amountPrecision = 0
           /\ WireFields(c).amount2Precision \in {<<>>, <<0>>}
           /\ WireFields(c).feePrecision = 0
           /\ WireFields(c).dataVersion = 0

\* C20 amended: the type codes as claimed; signSomeData, signRequest and
\* signMessage send 0 for amountPrecision, feePrecision and the version,
\* and for amount2Precision what the caller passed, 0 without it; signOrder
\* sends the version and the precisions of the caller, with 8, 0 and 8 for
\* a precision the caller left out.
C20_TypeCodeStampedOrderKeepsFields ==
  \A c \in Calls :
    (ecall[c].op \in SignOps /\ SignChunks(c) # <<>>) =>
      LET given == ecall[c].given
          sent == WireFields(c)
      IN /\ sent.dataType = TypeCodeOf(c)
         /\ sent.amount2Precision \in {<<>>, <<OrElse(given.amount2Precision, 0)>>}
         /\ ecall[c].op \in {"signSomeData", "signRequest", "signMessage"} =>
              /\ sent.amountPrecision = 0
              /\ sent.feePrecision = 0
              /\ sent.dataVersion = 0
         /\ ecall[c].op \in {"signOrder", "signTransaction"} =>
              /\ sent.amountPrecision = OrElse(given.amountPrecision, 8)
              /\ sent.feePrecision = OrElse(given.feePrecision, 8)
              /\ sent.dataVersion = given.dataVersion

\* signOrder was called with dataType 4, version 1, amountPrecision 6 and no
\* other precision, on firmware 1.2.0: the bytes 6, 0, 8, 0xFC, 1 were sent.
C20_Witness ==
  /\ ecall[1].op = "signOrder"
  /\ ecall[1].given.dataType = 4
  /\ version[1].val = <<1, 2, 0, 144, 0>>
  /\ SignChunks(1) # <<>>
  /\ Slice(SignChunks(1)[1].data, 20, 25) = <<6, 0, 8, 252, 1>>

(***************************************************************************)
(* Claims about getPaginationUsersData                                     *)
(***************************************************************************)
\* The number from + (i - 1), the id of the i-th record.
IdAt(from, i) ==
  IF from.kind = "int" /\ from.val <= 2147483647 - (i - 1)
  THEN Num(from.val + (i - 1)) ELSE TwoToThe31

\* from and limit are non-negative integers.
PaginationArgsValid(call) == PaginationRangeError(call.from, call.limit) = <<>>

\* Every index of [from, from + limit) is an account index, at most 0x7FFFFFFF.
PaginationIndicesValid(call) ==
  /\ PaginationArgsValid(call)
  /\ call.limit.kind = "int"
  /\ call.limit.val = 0
       \/ (call.from.kind = "int" /\ call.from.val <= 2147483647 - (call.limit.val - 1))

\* What an unhealthy device or transport makes an operation fail with: the
\* rejection of create() behind a failed connect, or as it is when the
\* operation awaits the engine of a connect another call made, the rejection
\* of an exchange, and the errors of the key answers that are not a key.
DeviceFaults ==
  {ConnectError(x) : x \in CreateErrors} \cup CreateErrors \cup TransportErrors
    \cup {GetWalletPublicKeyResume(IdleCall, Ok(r)).out.err[1] :
            r \in {x \in LedgerKeyReplies :
                     ~GetWalletPublicKeyResume(IdleCall, Ok(x)).out.ok}}

\* The records are those of from, from + 1, ... in that order, each with the
\* path of its id.
RecordsInOrder(call, records) ==
  \A i \in 1..Len(records) :
    /\ records[i].id = IdAt(call.from, i)
    /\ records[i].path = getPathById(IdAt(call.from, i)).val

\* In this step the getPaginationUsersData call of caller u ends.
PaginationEnds(u) ==
  /\ lcall'[u].op = "getPaginationUsersData"
  /\ lcall[u].pc # "done"
  /\ lcall'[u].pc = "done"

\* The outcome C21 describes for the call that ends in this step: limit
\* records in order, or the failure of the device; with limit 0 the empty
\* array at once, without an exchange or a connect.
PaginationOutcome(u) ==
  LET call == lcall'[u]
  IN /\ call.out.ok =>
          /\ call.limit.kind = "int"
          /\ Len(call.out.val) = call.limit.val
          /\ RecordsInOrder(call, call.out.val)
     /\ ~call.out.ok => call.out.err[1] \in DeviceFaults
     /\ (call.limit.kind = "int" /\ call.limit.val = 0) =>
          /\ lcall[u].pc = "idle"
          /\ call.out = Ok(<<>>)
          /\ ~ConnStarted
          /\ UNCHANGED <<ecall, transport>>

\* While the loop runs, the records derived so far are those of from,
\* from + 1, ... and the index being derived is the next one: one derivation
\* at a time, in order.
PaginationSequential ==
  \A u \in Users :
    (lcall[u].op = "getPaginationUsersData" /\ PaginationArgsValid(lcall[u])) =>
      /\ RecordsInOrder(lcall[u], lcall[u].usersData)
      /\ lcall[u].pc \notin {"idle", "done"} =>
           lcall[u].id = IdAt(lcall[u].from, Len(lcall[u].usersData) + 1)
      /\ lcall[u].pc = "engine" =>
           /\ ecall[u].op = "getWalletPublicKey"
           /\ ecall[u].path = getPathById(lcall[u].id).val
           /\ Len(ecall[u].sent) <= 1

C22_FirstFailureEndsPagination ==
  [][\A u \in Users :
       (lcall[u].op = "getPaginationUsersData" /\ lcall'[u] # lcall[u]
          /\ lcall[u].pc \notin {"idle", "done"}) =>
         LET failure == FailureOf(u)
         IN /\ (failure # <<>> /\ lcall[u].pc # "catchOuter") =>
                 /\ lcall'[u].pc = "catchOuter"
                 /\ lcall'[u].caught = failure
            /\ (failure = <<>>) => lcall'[u].pc # "catchOuter"
            /\ lcall'[u].pc = "catchOuter" =>
                 /\ lcall'[u].id = lcall[u].id
                 /\ lcall'[u].usersData = lcall[u].usersData
                 /\ ecall'[u].pc = "idle"
            /\ lcall[u].pc = "catchOuter" =>
                 /\ lcall'[u].pc = "done"
                 /\ lcall'[u].out = Fail(lcall[u].caught[1])
                 /\ lcall'[u].out.val = <<>>
                 /\ lcall'[u].id = lcall[u].id
                 /\ ecall' = ecall]_vars

\* getPaginationUsersData(0, 2) has derived index 0, failed at index 1 on the
\* error status of the device and has rejected with that error: the record
\* of index 0 is not in what the caller gets.
C22_Witness ==
  /\ lcall[1].op = "getPaginationUsersData"
  /\ lcall[1].pc = "done"
  /\ lcall[1].from = Num(0)
  /\ lcall[1].limit = Num(2)
  /\ lcall[1].id = Num(1)
  /\ Len(lcall[1].usersData) = 1
  /\ ~lcall[1].out.ok
  /\ lcall[1].out.err # <<>>
  /\ lcall[1].out.val = <<>>

(***************************************************************************)
(* Claims about the choice of the layout                                   *)
(***************************************************************************)
RECURSIVE Copies(_, _)
\* data repeated k times
Copies(data, k) == IF k = 0 THEN <<>> ELSE data \o Copies(data, k - 1)

\* The buffer _fillDataForSign has returned to caller c has this layout: the
\* path, then five metadata bytes (with amount2Precision) or four, then the
\* length of the data if prefixed, then so many copies of the data.
LayoutIs(c, withAmount2, prefixed, copies) ==
  LET sData == ecall[c].sData
      data == sData.dataBuffer
      ap == OrElse(sData.amountPrecision, DCC_PRECISION)
      a2p == OrElse(sData.amount2Precision, 0)
      fp == OrElse(sData.feePrecision, DCC_PRECISION)
      meta == IF withAmount2 THEN <<ap, a2p, fp, sData.dataType, sData.dataVersion>>
              ELSE <<ap, fp, sData.dataType, sData.dataVersion>>
      len == IF prefixed THEN <<0, 0, 0, Len(data)>> ELSE <<>>
  IN ecall[c].out.val =
       splitPath(ecall[c].path).val \o meta \o len \o Copies(data, copies)

\* The version the device reported to the engine of caller c, status word
\* removed, a missing component counting 0.
ReportedVersion(c) ==
  LET reported == version[ecall[c].eng].val
      appVersion == SubSeq(reported, 1, Len(reported) - 2)
  IN [i \in 1..3 |-> IF Len(appVersion) >= i THEN appVersion[i] ELSE 0]

\* _fillDataForSign has returned a buffer to caller c.
FillReturned(c) ==
  ecall[c].op = "_fillDataForSign" /\ ecall[c].pc = "done" /\ ecall[c].out.ok

StaticCall(c, call) ==
  /\ ecall[c].pc = "idle"
  /\ ecall' = [ecall EXCEPT ![c] = [call EXCEPT !.pc = "done"]]
  /\ UNCHANGED <<version, networkCode>>
  /\ UNCHANGED ledgerVars

Bytes == 0..255

\* The status words handed to checkError: every pair of bytes, and the
\* shorter arrays.
StatusWords ==
  {<<high, low>> : high \in Bytes, low \in Bytes} \cup {<<>>, <<144>>, <<105>>}

CallCheckError(c) ==
  /\ ecall[c].pc = "idle"
  /\ \E data \in StatusWords :
       StaticCall(c, [IdleCall EXCEPT !.op = "checkError", !.dataBuffer = data,
                                      !.out = Ok(checkError(data))])

NextStatus == CallCheckError(1) \/ EngineReturn(1)

SpecStatus == InitEngine /\ [][NextStatus]_vars

\* The code as four lowercase hex digits, digit by digit.
FourHexDigits(code) ==
  HexDigit[(code \div 4096) + 1] \o HexDigit[((code \div 256) % 16) + 1]
    \o HexDigit[((code \div 16) % 16) + 1] \o HexDigit[(code % 16) + 1]

\* C24: checkError([high, low]) with bytes in 0..255 returns null if and only
\* if high*256 + low = 0x9000; for every other code it returns an error
\* object whose status is high*256 + low and whose message is the entry of
\* the table for that code if there is one, and otherwise "Unknown error (0x"
\* followed by the code as exactly four lowercase hex digits and ")".
C24_CheckErrorMapsStatusWord ==
  \A c \in Calls :
    (ecall[c].op = "checkError" /\ ecall[c].pc = "done"
       /\ Len(ecall[c].dataBuffer) = 2) =>
      LET code == ecall[c].dataBuffer[1] * 256 + ecall[c].dataBuffer[2]
          returned == ecall[c].out.val
      IN /\ ecall[c].out.ok
         /\ returned = <<>> <=> code = 36864
         /\ code # 36864 =>
              /\ Len(returned) = 1
              /\ returned[1].status = code
              /\ returned[1].error =
                   IF code \in STATUS_CODES THEN STATUS_MESSAGES(code)
                   ELSE "Unknown error (0x" \o FourHexDigits(code) \o ")"
              /\ code \notin STATUS_CODES => Len(returned[1].error) = 22

\* checkError([0x0a, 0xbc]) has returned the generated message with the
\* code padded to four digits.
C24_Witness ==
  /\ ecall[1].op = "checkError"
  /\ ecall[1].pc = "done"
  /\ ecall[1].dataBuffer = <<10, 188>>
  /\ ecall[1].out.val = <<[error |-> "Unknown error (0x0abc)", status |-> 2748]>>

(***************************************************************************)
(* SpecPath: a caller hands paths to DCC.splitPath, some written from       *)
(* components, some put together from tokens, and account indices to       *)
(* DCCLedger.getPathById.                                                  *)
(***************************************************************************)
\* The longest path, in components or tokens.
MaxPathLen == 3

\* Indices of components: the ends of the range, the first values of each
\* byte, and those of the prefix of DCCLedger.
PathIndices == {0, 1, 44, 255, 256, 5741564, 16777216, 2147483647}
PathComponents == [index : PathIndices, hardened : BOOLEAN]
ComponentLists == UNION {[1..n -> PathComponents] : n \in 1..MaxPathLen}

RECURSIVE PathString(_)
\* The string form of a path: each index in base 10, followed by ' when
\* hardened, the components separated by /.
PathString(components) ==
  LET first == Head(components)
      token == NatChars(first.index) \o (IF first.hardened THEN <<"'">> ELSE <<>>)
  IN IF Len(components) = 1 THEN token
     ELSE token \o <<"/">> \o PathString(Tail(components))

\* splitPath is called with the string form of components, with or without
\* the root marker in front.  The caller does one thing at a time: he holds
\* no result of getPathById then.
CallSplitPathOfComponents(c) ==
  /\ ecall[c].pc = "idle"
  /\ lcall[c].pc = "idle"
  /\ \E components \in ComponentLists, root \in BOOLEAN :
       LET path == (IF root THEN <<"m", "/">> ELSE <<>>) \o PathString(components)
       IN StaticCall(c, [IdleCall EXCEPT !.op = "splitPath", !.path = path,
                                         !.components = components,
                                         !.out = splitPath(path)])

\* Tokens of paths: canonical indices, the root marker, and tokens that are
\* not the base-10 literal of an index: empty, the marker hardened, signed, a
\* fraction, a leading zero, white space in front and behind, letters, two
\* hardening markers, and 0x80000000.
PathTokens ==
  { <<>>, <<"0">>, <<"4", "4", "'">>, <<"m">>, <<"m", "'">>, <<"-", "1">>,
    <<"+", "1">>, <<"1", ".", "5">>, <<"0", "1">>, <<" ", "1">>, <<"1", " ">>,
    <<"a", "b", "c">>, <<"1", "'", "'">>,
    <<"2", "1", "4", "7", "4", "8", "3", "6", "4", "7", "'">>,
    <<"2", "1", "4", "7", "4", "8", "3", "6", "4", "8">>,
    <<"2", "1", "4", "7", "4", "8", "3", "6", "4", "8", "'">> }
TokenLists == UNION {[1..n -> PathTokens] : n \in 1..MaxPathLen}

RECURSIVE JoinTokens(_)
\* tokens.join('/')
JoinTokens(tokens) ==
  IF Len(tokens) = 1 THEN Head(tokens)
  ELSE Head(tokens) \o <<"/">> \o JoinTokens(Tail(tokens))

\* splitPath is called with a path put together from tokens.
CallSplitPathOfTokens(c) ==
  /\ ecall[c].pc = "idle"
  /\ lcall[c].pc = "idle"
  /\ \E tokens \in TokenLists :
       StaticCall(c, [IdleCall EXCEPT !.op = "splitPath",
                                      !.path = JoinTokens(tokens),
                                      !.out = splitPath(JoinTokens(tokens))])

\* The arguments of getPathById: integers inside and outside [0, 0x7FFFFFFF],
\* 0x80000000, a fraction, NaN and Infinity.
PathIds ==
  { Num(v) : v \in {0 - 2147483647, 0 - 1, 0, 1, 5, 10, 4095, 2147483647} }
    \cup { TwoToThe31, OneAndAHalf, NotANumber, PositiveInfinity }

\* getPathById(id) is called: it has no await, and the call record holds its
\* argument and its result.
CallGetPathById(u) ==
  /\ lcall[u].pc = "idle"
  /\ ecall[u].pc = "idle"
  /\ \E id \in PathIds :
       SetCall(u, [IdleLedgerCall EXCEPT !.op = "getPathById", !.pc = "done",
                                         !.id = id, !.out = getPathById(id)])
  /\ UNCHANGED <<options, ready, dccLibPromise, initTransportPromise, lastError,
                 transport, conn>>
  /\ UNCHANGED engineVars

\* The path getPathById has returned to caller u is handed to splitPath, as
\* the operations of DCCLedger do through the engine.
CallSplitPathOfId(c, u) ==
  /\ ecall[c].pc = "idle"
  /\ lcall[u].op = "getPathById"
  /\ lcall[u].pc = "done"
  /\ lcall[u].out.ok
  /\ StaticCall(c, [IdleCall EXCEPT !.op = "splitPath",
                                    !.path = lcall[u].out.val,
                                    !.out = splitPath(lcall[u].out.val)])

NextPath ==
  \/ CallSplitPathOfComponents(1)
  \/ CallSplitPathOfTokens(1)
  \/ CallGetPathById(1)
  \/ CallSplitPathOfId(1, 1)
  \/ EngineReturn(1)
  \/ LedgerReturn(1)

SpecPath == InitEngine /\ [][NextPath]_vars

(***************************************************************************)
(* Claims about paths                                                      *)
(***************************************************************************)
\* The four bytes of component i (from 1) of a buffer.
ComponentBytes(buffer, i) == SubSeq(buffer, 4 * i - 3, 4 * i)

\* The index four bytes hold, most significant byte first, their top bit
\* left out.
IndexOfBytes(b) == (b[1] % 128) * 16777216 + b[2] * 65536 + b[3] * 256 + b[4]

\* C25: for every valid derivation path (one or more components, each an
\* index in [0, 0x7FFFFFFF], optionally hardened), splitPath of its string
\* form returns exactly 4 bytes per component, in order, each the big-endian
\* encoding of the index plus 0x80000000 if hardened: the top bit of the
\* first byte of a component is set if and only if the component is
\* hardened, and decoding the buffer gives back the components.
C25_SplitPathEncodesComponents ==
  \A c \in Calls :
    (ecall[c].op = "splitPath" /\ ecall[c].pc = "done"
       /\ ecall[c].components # <<>>) =>
      LET components == ecall[c].components
          buffer == ecall[c].out.val
      IN /\ ecall[c].out.ok
         /\ Len(buffer) = 4 * Len(components)
         /\ \A i \in 1..Len(components) :
              LET b == ComponentBytes(buffer, i)
              IN /\ \A k \in 1..4 : b[k] \in 0..255
                 /\ b[1] >= 128 <=> components[i].hardened
                 /\ IndexOfBytes(b) = components[i].index
         /\ [i \in 1..(Len(buffer) \div 4) |->
               [index |-> IndexOfBytes(ComponentBytes(buffer, i)),
                hardened |-> ComponentBytes(buffer, i)[1] >= 128]] = components

\* splitPath("m/2147483647'/5741564/256'") has returned its twelve bytes.
C25_Witness ==
  /\ ecall[1].op = "splitPath"
  /\ ecall[1].pc = "done"
  /\ Len(ecall[1].components) = 3
  /\ ecall[1].path = <<"m", "/", "2", "1", "4", "7", "4", "8", "3", "6", "4", "7", "'",
                       "/", "5", "7", "4", "1", "5", "6", "4", "/", "2", "5", "6", "'">>
  /\ ecall[1].out = Ok(<<255, 255, 255, 255, 0, 87, 155, 252, 128, 0, 1, 0>>)

\* A token without its one trailing hardening marker.
TokenBody(token) ==
  IF token # <<>> /\ token[Len(token)] = "'"
  THEN SubSeq(token, 1, Len(token) - 1) ELSE token

\* The canonical base-10 literal of a non-negative integer: digits only, at
\* least one, no leading zero but in "0".
IsIndexLiteral(chars) ==
  /\ chars # <<>>
  /\ \A i \in 1..Len(chars) : chars[i] \in DIGIT_CHARS
  /\ Len(chars) = 1 \/ chars[1] # "0"

\* The format error and the range error of splitPath for a token.
PathFormatError(token) ==
  MkError("Error",
          "Invalid BIP-44 path component \"" \o JoinChars(token) \o "\" - "
            \o "each segment must be a non-negative integer optionally followed by '",
          NoCause)
PathRangeError(token) ==
  MkError("RangeError",
          "BIP-44 path index " \o JoinChars(TokenBody(token))
            \o " exceeds maximum (2147483647)", NoCause)

\* What C26 says of splitPath for these tokens, a leading root marker taken
\* off: the error of the first token that is not an index literal or exceeds
\* 0x7FFFFFFF; without such a token and without any token, the error of the
\* empty path; otherwise nothing.
ExpectedPathError(tokens) ==
  LET bad(i) == ~IsIndexLiteral(TokenBody(tokens[i]))
      tooBig(i) == NumExceedsInt31([digits |-> TokenBody(tokens[i])])
      wrong == {i \in 1..Len(tokens) : bad(i) \/ tooBig(i)}
      first == CHOOSE i \in wrong : \A j \in wrong : i <= j
  IN IF wrong # {}
     THEN IF bad(first) THEN <<PathFormatError(tokens[first])>>
          ELSE <<PathRangeError(tokens[first])>>
     ELSE IF tokens = <<>>
     THEN <<MkError("Error", "BIP-44 path must contain at least one component",
                    NoCause)>>
     ELSE <<>>

\* C26: splitPath rejects, without returning a buffer, a token that (one
\* trailing hardening marker removed) is not the canonical base-10 literal of
\* a non-negative integer - empty, signed, fractional, with a leading zero or
\* white space, or a root marker m that is not the leading token - with the
\* format error; a token whose value exceeds 0x7FFFFFFF with a RangeError; and
\* a path with no component left after the root marker with "must contain at
\* least one component".
C26_SplitPathRejectsMalformedTokens ==
  \A c \in Calls :
    (ecall[c].op = "splitPath" /\ ecall[c].pc = "done") =>
      LET tokens == Split(ecall[c].path, <<>>)
          rest == IF Head(tokens) = <<"m">> THEN Tail(tokens) ELSE tokens
          expected == ExpectedPathError(rest)
      IN expected # <<>> =>
           /\ ~ecall[c].out.ok
           /\ ecall[c].out.val = <<>>
           /\ ecall[c].out.err = expected

\* C27: getPathById(id) returns "44'/5741564'/0'/0'/<id>'" for every integer
\* id in [0, 0x7FFFFFFF] and throws a RangeError for every other argument
\* (negative, not an integer, NaN, 0x80000000 and above); every path it
\* returns is accepted by splitPath and encodes to 20 bytes, all five
\* components hardened.
C27_GetPathByIdBuildsHardenedPath ==
  /\ \A u \in Users :
       (lcall[u].op = "getPathById" /\ lcall[u].pc = "done") =>
         LET id == lcall[u].id
             path == lcall[u].out.val
             digits == SubSeq(path, 20, Len(path) - 1)
         IN IF id.kind = "int" /\ id.val >= 0
            THEN /\ lcall[u].out.ok
                 /\ SubSeq(path, 1, 19) =
                      <<"4", "4", "'", "/", "5", "7", "4", "1", "5", "6", "4", "'",
                        "/", "0", "'", "/", "0", "'", "/">>
                 /\ path[Len(path)] = "'"
                 /\ IsIndexLiteral(digits)
                 /\ DigitsValue(digits, 0) = id.val
            ELSE /\ ~lcall[u].out.ok
                 /\ lcall[u].out.val = <<>>
                 /\ lcall[u].out.err[1].type = "RangeError"
  /\ \A c \in Calls, u \in Users :
       (ecall[c].op = "splitPath" /\ ecall[c].pc = "done"
          /\ lcall[u].op = "getPathById" /\ lcall[u].pc = "done" /\ lcall[u].out.ok
          /\ ecall[c].path = lcall[u].out.val) =>
         LET buffer == ecall[c].out.val
         IN /\ ecall[c].out.ok
            /\ Len(buffer) = 20
            /\ \A i \in 1..5 : ComponentBytes(buffer, i)[1] >= 128
            /\ [i \in 1..5 |-> IndexOfBytes(ComponentBytes(buffer, i))] =
                 <<44, 5741564, 0, 0, lcall[u].id.val>>

\* getPathById(0x7FFFFFFF) has returned its path and splitPath has encoded
\* it.
C27_Witness ==
  /\ lcall[1].op = "getPathById"
  /\ lcall[1].pc = "done"
  /\ lcall[1].id = Num(2147483647)
  /\ lcall[1].out.val = <<"4", "4", "'", "/", "5", "7", "4", "1", "5", "6", "4", "'",
                          "/", "0", "'", "/", "0", "'", "/",
                          "2", "1", "4", "7", "4", "8", "3", "6", "4", "7", "'">>
  /\ ecall[1].op = "splitPath"
  /\ ecall[1].path = lcall[1].out.val
  /\ ecall[1].out = Ok(<<128, 0, 0, 44, 128, 87, 155, 252, 128, 0, 0, 0,
                         128, 0, 0, 0, 255, 255, 255, 255>>)

(***************************************************************************)
(* SpecNew: a caller constructs an engine on a transport of his own and a  *)
(* DCCLedger, with network codes inside and outside [0, 255], and uses the *)
(* engines that exist.                                                     *)
(***************************************************************************)
\* assertUint8 for a number that need not be an integer.
assertUint8Number(name, value) ==
  IF ~IsInteger(value) \/ value.kind = "big" \/ value.val < 0 \/ value.val > 255
  THEN <<MkError("RangeError",
                 name \o " must be an integer in [0, 255], got " \o NumText(value),
                 NoCause)>>
  ELSE <<>>

\* The range check of the constructor of DCCLedger with its upper bound off
\* by one.
LedgerNetworkCodeErrorAbove256(code) ==
  IF ~IsInteger(code) \/ code.kind = "big" \/ code.val < 0 \/ code.val > 256
  THEN <<MkError("RangeError",
                 "networkCode must be an integer in [0, 255], got " \o NumText(code),
                 NoCause)>>
  ELSE <<>>

\* The range check of the constructor of DCCLedger.
LedgerNetworkCodeError(code) ==
  IF ~IsInteger(code) \/ code.kind = "big" \/ code.val < 0 \/ code.val > 255
  THEN <<MkError("RangeError",
                 "networkCode must be an integer in [0, 255], got " \o NumText(code),
                 NoCause)>>
  ELSE <<>>

\* The networkCode arguments: left out, the ends of the range, the first
\* numbers outside, a fraction and NaN.
NewNetworkCodes ==
  { Undefined, Some(Num(0)), Some(Num(255)), Some(Num(256)), Some(Num(0 - 1)),
    Some(OneAndAHalf), Some(NotANumber) }
NewLedgerOptions ==
  { [networkCode |-> code, exchangeTimeout |-> Undefined] :
      code \in {Undefined, Some(Num(84)), Some(Num(256)), Some(Num(0 - 1)),
                Some(OneAndAHalf)} }

\* No DCCLedger has been constructed.
NoOptions == [networkCode |-> Unconstructed, exchangeTimeout |-> Undefined]

\* new DCC(transport, code) on the open transport e, which has no engine yet.
ConstructEngine(c, e, code) ==
  LET networkCodeArg == OrElse(code, Num(MAIN_NET_CODE))
      bad == assertUint8Number("networkCode", networkCodeArg)
      call == [IdleCall EXCEPT !.op = "constructor", !.pc = "done", !.eng = e,
                               !.code = code]
  IN /\ ecall[c].pc = "idle"
     /\ transport[e].st = "open"
     /\ networkCode[e] = Unconstructed
     /\ IF bad # <<>>
        THEN /\ ecall' = [ecall EXCEPT ![c] = [call EXCEPT !.out = Fail(bad[1])]]
             /\ UNCHANGED <<networkCode, version>>
        ELSE /\ ecall' = [ecall EXCEPT ![c] = [call EXCEPT !.out = Ok(<<>>)]]
             /\ networkCode' = [networkCode EXCEPT ![e] = networkCodeArg.val]
             /\ version' = [version EXCEPT ![e] = VersionNull]
     /\ UNCHANGED ledgerVars

\* new DCCLedger(opts), with a transport factory: the fields are set, the
\* network code is checked, and tryConnect() runs up to its first await.
ConstructLedger(u, opts) ==
  LET networkCodeArg == OrElse(opts.networkCode, Num(MAIN_NET_CODE))
      bad == LedgerNetworkCodeError(networkCodeArg)
      call == [IdleLedgerCall EXCEPT !.op = "constructor", !.pc = "done",
                                     !.code = opts.networkCode]
  IN /\ lcall[u].pc = "idle"
     /\ options = NoOptions
     /\ IF bad # <<>>
        THEN /\ SetCall(u, [call EXCEPT !.out = Fail(bad[1])])
             /\ NoConnect
             /\ UNCHANGED <<options, ready>>
        ELSE /\ SetCall(u, [call EXCEPT !.out = Ok(<<>>)])
             /\ options' = [networkCode |-> networkCodeArg.val,
                            exchangeTimeout |-> opts.exchangeTimeout]
             /\ ready' = FALSE
             /\ TryConnectEnter(FreeConn, "constructor")
     /\ UNCHANGED <<lastError, transport>>
     /\ UNCHANGED engineVars

\* A caller uses an engine that exists: he derives a key, queries the
\* version or signs three bytes.
UseEngine(c, e) ==
  /\ networkCode[e] # Unconstructed
  /\ \E op \in {"getWalletPublicKey", "getVersion", "signTransaction"} :
       EngineCall(c, e, op,
                  [NoArgs EXCEPT !.path = ADDRESS_PREFIX \o <<"0", "'">>,
                                 !.sData = LedgerPayload])

\* A transport of the caller is open; nothing is constructed.
InitNew ==
  /\ options = NoOptions
  /\ ready = FALSE
  /\ dccLibPromise = 0
  /\ initTransportPromise = 0
  /\ lastError = <<>>
  /\ transport = [t \in EngIds |-> IF t = 1 THEN OpenTransport ELSE NoTransport]
  /\ conn = [k \in ConnIds |-> IdleConn]
  /\ lcall = [u \in Users |-> IdleLedgerCall]
  /\ version = [e \in EngIds |-> VersionNull]
  /\ networkCode = [e \in EngIds |-> Unconstructed]
  /\ ecall = [c \in Calls |-> IdleCall]

NextNew ==
  \/ \E code \in NewNetworkCodes : ConstructEngine(1, 1, code)
  \/ \E opts \in NewLedgerOptions : ConstructLedger(1, opts)
  \/ LedgerReturn(1)
  \/ \E k \in ConnIds : ConnectInit(k)
  \/ \E k \in ConnIds : ConnectSettled(k)
  \/ \E t \in EngIds : TransportOpens(t)
  \/ \E t \in EngIds : TransportFails(t)
  \/ \E e \in EngIds : UseEngine(1, e)
  \/ DeviceKeyReply(1, LedgerKeyReplies)
  \/ DeviceChunkReply(1, LedgerChunkReplies)
  \/ \E e \in EngIds : DeviceVersionReply(e, LedgerVersionReplies)
  \/ VersionResume(1)
  \/ EngineReturn(1)

SpecNew == InitNew /\ [][NextNew]_vars

\* The network code a constructor works with, 76 when the argument is left
\* out, and whether it is an integer in [0, 255].
CodeOf(code) == IF code = Undefined THEN Num(76) ELSE code[1]
IsNetworkCode(n) == n.kind = "int" /\ n.val \in 0..255

\* A constructor call has ended as its network code demands: with the code
\* kept, or with the RangeError that names the value.
ConstructorOutcome(call, kept) ==
  LET n == CodeOf(call.code)
  IN IF IsNetworkCode(n)
     THEN call.out = Ok(<<>>) /\ kept = n.val
     ELSE /\ ~call.out.ok
          /\ call.out.err[1].type = "RangeError"
          /\ call.out.err[1].message =
               "networkCode must be an integer in [0, 255], got " \o NumText(n)
          /\ kept = Unconstructed

\* Every request an engine call has sent: key requests and signing chunks
\* carry the network code of the engine as P2, version queries carry
\* P1 = P2 = 0 and no payload.
RequestsCarryNetworkCode ==
  \A c \in Calls : \A i \in DOMAIN ecall[c].sent :
    LET apdu == ecall[c].sent[i]
    IN /\ apdu.ins \in {2, 4} => apdu.p2 = networkCode[ecall[c].eng]
       /\ apdu.ins = 6 => apdu.p1 = 0 /\ apdu.p2 = 0 /\ apdu.data = <<>>

\* The engines of the DCCLedger hold the network code of the DCCLedger.
LedgerEnginesHoldOptionsCode ==
  \A e \in EngIds \ {1} :
    networkCode[e] # Unconstructed => networkCode[e] = options.networkCode

\* C28: a constructor of an engine or of a DCCLedger fails with a RangeError
\* exactly when its network code (76 when left out) is not an integer in
\* [0, 255]; a DCCLedger constructor that fails starts no connect; an engine
\* keeps the code it was constructed with, its key requests and signing
\* chunks carry that code as P2, and its version queries carry P1 = P2 = 0
\* and no payload.
C28_NetworkCodeCheckedAndSentAsP2 ==
  /\ [](/\ \A c \in Calls :
             ecall[c].op = "constructor" =>
               ConstructorOutcome(ecall[c], networkCode[ecall[c].eng])
        /\ \A u \in Users :
             lcall[u].op = "constructor" =>
               ConstructorOutcome(lcall[u], options.networkCode)
        /\ LedgerEnginesHoldOptionsCode
        /\ RequestsCarryNetworkCode)
  /\ [][/\ \A u \in Users :
             lcall'[u].op = "constructor" /\ lcall[u].op # "constructor"
             /\ ~lcall'[u].out.ok =>
               UNCHANGED <<conn, transport, initTransportPromise, dccLibPromise>>
        /\ \A e \in EngIds :
             networkCode[e] # Unconstructed => networkCode'[e] = networkCode[e]]_vars

\* An engine constructed with 255 has sent a key request with P2 = 255, and
\* the construction of a DCCLedger with 256 has failed with nothing started.
C28_Witness ==
  /\ networkCode[1] = 255
  /\ ecall[1].op = "getWalletPublicKey"
  /\ ecall[1].eng = 1
  /\ Len(ecall[1].sent) = 1
  /\ ecall[1].sent[1].ins = 4
  /\ ecall[1].sent[1].p2 = 255
  /\ lcall[1].op = "constructor"
  /\ lcall[1].code = Some(Num(256))
  /\ ~lcall[1].out.ok
  /\ \A k \in ConnIds : conn[k] = IdleConn

(***************************************************************************)
(* SpecBase58: a caller hands byte arrays to base58Encode.                 *)
(***************************************************************************)
MaxBase58Len == 3
\* Bytes at the ends of the range and on either side of the base.
Base58Bytes == {0, 1, 57, 58, 255}
RECURSIVE BytesUpTo(_)
BytesUpTo(n) ==
  IF n = 0 THEN {<<>>}
  ELSE BytesUpTo(n - 1)
         \cup {Append(b, x) : b \in {q \in BytesUpTo(n - 1) : Len(q) = n - 1},
                              x \in Base58Bytes}
\* The arrays handed over: every array of up to MaxBase58Len of these bytes,
\* and the five bytes of "Hello".
Base58Inputs == BytesUpTo(MaxBase58Len) \cup {<<72, 101, 108, 108, 111>>}

CallBase58Encode(c) ==
  /\ ecall[c].pc = "idle"
  /\ \E buffer \in Base58Inputs :
       StaticCall(c, [IdleCall EXCEPT !.op = "base58Encode", !.dataBuffer = buffer,
                                      !.out = Ok(base58Encode(buffer))])

NextBase58 == CallBase58Encode(1) \/ EngineReturn(1)

SpecBase58 == InitEngine /\ [][NextBase58]_vars

\* The number the bytes write in base 256, the most significant byte first.
RECURSIVE BigEndianValue(_)
BigEndianValue(b) ==
  IF b = <<>> THEN 0 ELSE BigEndianValue(SubSeq(b, 1, Len(b) - 1)) * 256 + b[Len(b)]

\* The bytes write a number below 2^31.
BelowTwoToThe31(b) == Len(b) <= 3 \/ (Len(b) = 4 /\ b[1] < 128)

\* The number in base 58 over the alphabet, without leading digits; zero
\* has no digits.
RECURSIVE Base58Numeral(_)
Base58Numeral(v) ==
  IF v = 0 THEN "" ELSE Base58Numeral(v \div 58) \o ALPHABET[(v % 58) + 1]

\* The number of zero bytes the array begins with.
RECURSIVE LeadingZeroBytes(_)
LeadingZeroBytes(b) ==
  IF b # <<>> /\ b[1] = 0 THEN 1 + LeadingZeroBytes(Tail(b)) ELSE 0

RECURSIVE Ones(_)
Ones(n) == IF n = 0 THEN "" ELSE "1" \o Ones(n - 1)

\* C29: base58Encode returns "" for the empty array and otherwise the number
\* the bytes write, in base 58 over the alphabet, after one "1" for each
\* leading zero byte: n zero bytes give n characters "1", [0, 0, 1] gives
\* "112", [255] gives "5Q", the bytes of "Hello" give "9Ajdvzr"; and no other
\* array gives the same string.
C29_Base58EncodeIsBigNumberWithLeadingOnes ==
  \A c \in Calls :
    ecall[c].op = "base58Encode" /\ ecall[c].pc = "done" =>
      LET buffer == ecall[c].dataBuffer
          text == ecall[c].out.val
      IN /\ ecall[c].out.ok
         /\ buffer = <<>> => text = ""
         /\ BelowTwoToThe31(buffer) =>
              text = Ones(LeadingZeroBytes(buffer))
                       \o Base58Numeral(BigEndianValue(buffer))
         /\ buffer = <<0>> => text = "1"
         /\ buffer = <<0, 0, 0>> => text = "111"
         /\ buffer = <<0, 0, 1>> => text = "112"
         /\ buffer = <<255>> => text = "5Q"
         /\ buffer = <<72, 101, 108, 108, 111>> => text = "9Ajdvzr"
         /\ \A other \in Base58Inputs :
              base58Encode(other) = text => other = buffer

\* Two zero bytes before a byte of value 58 have been encoded as "1121".
C29_Witness ==
  /\ ecall[1].op = "base58Encode"
  /\ ecall[1].pc = "done"
  /\ ecall[1].dataBuffer = <<0, 0, 58>>
  /\ ecall[1].out.val = "1121"

(***************************************************************************)
(* The length of the key response and its status word                      *)
(***************************************************************************)
\* The error of a key response of n bytes that is too short.
InvalidResponse(n) ==
  MkError("Error",
          "Invalid response: expected at least 69 bytes, got " \o NatToString(n),
          NoCause)

\* C30: a getWalletPublicKey call whose exchange was answered with fewer than
\* 69 bytes has failed with 'Invalid response: expected at least 69 bytes,
\* got <n>' and no cause, whatever the last two bytes of the answer are; an
\* answer of at least 69 bytes never gives that error, and it fails the call
\* with the error of its status word when that is not 0x9000.
C30_KeyResponseLengthBeforeStatus ==
  \A c \in Calls :
    ecall[c].op = "getWalletPublicKey" /\ ecall[c].pc = "done"
    /\ ecall[c].acks # <<>> =>
      LET response == ecall[c].acks[1]
          n == Len(response)
          status == IF n >= 2 THEN response[n - 1] * 256 + response[n] ELSE 0 - 1
      IN IF n < 69
         THEN ecall[c].out = Fail(InvalidResponse(n))
         ELSE /\ ecall[c].out.err # <<InvalidResponse(n)>>
              /\ status # 36864 =>
                   /\ ~ecall[c].out.ok
                   /\ ecall[c].out.err[1].cause # NoCause
                   /\ ecall[c].out.err[1].cause[1].status = status

\* An answer of 68 bytes that ends with 0x6985 has failed the call with the
\* error of its length.
C30_Witness ==
  /\ ecall[1].op = "getWalletPublicKey"
  /\ ecall[1].pc = "done"
  /\ Len(ecall[1].acks) = 1
  /\ Len(ecall[1].acks[1]) = 68
  /\ SliceLast(ecall[1].acks[1], 2) = <<105, 133>>
  /\ ecall[1].out.err[1].message =
       "Invalid response: expected at least 69 bytes, got 68"
  /\ ecall[1].out.err[1].cause = NoCause

(***************************************************************************)
(* The layout tier and the order of versions                               *)
(***************************************************************************)
\* Version v is at or after major.minor.patch in the order of semantic
\* versions.
AtLeastVersion(v, major, minor, patch) ==
  \/ v[1] > major
  \/ v[1] = major /\ v[2] > minor
  \/ v[1] = major /\ v[2] = minor /\ v[3] >= patch

\* C31: the layout of a buffer _fillDataForSign has returned is the newest
\* one exactly when the reported version is at or after 1.2.0 in the order
\* of semantic versions, the middle one exactly when it is at or after 1.1.0
\* and before 1.2.0, the legacy one exactly when it is before 1.1.0, a
\* missing component counting 0.
C31_LayoutFollowsSemanticVersion ==
  \A c \in Calls :
    FillReturned(c) =>
      LET v == ReportedVersion(c)
      IN IF AtLeastVersion(v, 1, 2, 0) THEN LayoutIs(c, TRUE, TRUE, 4)
         ELSE IF AtLeastVersion(v, 1, 1, 0) THEN LayoutIs(c, FALSE, TRUE, 2)
         ELSE LayoutIs(c, FALSE, FALSE, 1)

(***************************************************************************)
(* SpecOverlap: three callers call getVersion and signTransaction of one   *)
(* engine, and the continuations of the calls that await a version query   *)
(* run in the order in which the promise jobs were queued.  A query that   *)
(* settles with a failure leaves this._version in place until the first    *)
(* awaiting call has run its catch block; a call that starts in between    *)
(* awaits the settled promise and resumes after the calls that awaited it  *)
(* before.                                                                 *)
(***************************************************************************)
MaxOverlapCalls == 3
OverlapCalls == 1..MaxOverlapCalls
OverlapVersionReplies == { <<1, 2, 0, 144, 0>>, <<105, 133>> }
OverlapChunkReplies == { <<7, 9, 144, 0>> }

\* Call c awaits the promise this._version of engine e holds.
AwaitsCache(c, e) ==
  ecall[c].pc = "awaitVersion" /\ ecall[c].eng = e /\ ecall[c].awaits = 0

\* Call c awaits a settled promise: it found the query settled with a
\* failure, or this._version was emptied after it found an answer there.
AwaitsSettled(c) == ecall[c].pc = "awaitSettled"

\* The call that sent the query this._version of engine e holds in flight.
QueryOwner(e) ==
  CHOOSE c \in DOMAIN ecall : AwaitsCache(c, e) /\ ecall[c].entry = "null"

\* this._version = null in the catch block, seen from the calls that await
\* what this._version held: they go on awaiting the promise they hold, the
\* query of its owner or the answer.
LetGo(e) ==
  [c \in DOMAIN ecall |->
     IF ~AwaitsCache(c, e) THEN ecall[c]
     ELSE IF version[e].st = "pending"
     THEN [ecall[c] EXCEPT !.awaits = QueryOwner(e)]
     ELSE IF version[e].st = "resolved"
     THEN [ecall[c] EXCEPT !.pc = "awaitSettled", !.settled = Ok(version[e].val)]
     ELSE ecall[c]]

\* The query this._version of engine e holds settles.  With an answer
\* without error the awaiting calls resume, one after the other; a failure
\* is held until they do.
VersionSettles(e, replies) ==
  /\ version[e].st = "pending"
  /\ \A c \in DOMAIN ecall : ~AwaitsSettled(c)
  /\ \E settled \in {Ok(r) : r \in replies} \cup {Fail(x) : x \in TransportErrors} :
       IF GetVersionAwaited(settled).clear
       THEN /\ version' = [version EXCEPT ![e] = VersionFailed(settled)]
            /\ UNCHANGED ecall
       ELSE /\ version' = [version EXCEPT ![e] = VersionResolved(settled.val)]
            /\ ecall' = [c \in DOMAIN ecall |->
                           IF AwaitsCache(c, e)
                           THEN EngineAfterVersion(ecall[c], settled)
                           ELSE ecall[c]]
  /\ UNCHANGED networkCode
  /\ UNCHANGED ledgerVars

\* The calls that awaited the failed query of engine e when it settled
\* resume, one after the other: each takes the catch block, which empties
\* this._version, and ends.
VersionContinuations(e) ==
  /\ version[e].st = "failed"
  /\ ecall' = [c \in DOMAIN ecall |->
                 IF AwaitsCache(c, e)
                 THEN EngineAfterVersion(ecall[c], version[e].val)
                 ELSE ecall[c]]
  /\ version' = [version EXCEPT ![e] = VersionNull]
  /\ UNCHANGED networkCode
  /\ UNCHANGED ledgerVars

\* Call c, which awaits a settled promise, resumes after the calls that
\* awaited the promise before it; on a failure its catch block empties
\* this._version, whatever it holds by then.
LateContinuation(c) ==
  LET e == ecall[c].eng
      resumed == [EngineAfterVersion(ecall[c], ecall[c].settled)
                    EXCEPT !.settled = Pending]
  IN /\ AwaitsSettled(c)
     /\ version[e].st # "failed"
     /\ IF GetVersionAwaited(ecall[c].settled).clear
        THEN /\ ecall' = [LetGo(e) EXCEPT ![c] = resumed]
             /\ version' = [version EXCEPT ![e] = VersionNull]
        ELSE /\ ecall' = [ecall EXCEPT ![c] = resumed]
             /\ UNCHANGED version
     /\ UNCHANGED networkCode
     /\ UNCHANGED ledgerVars

\* The query of caller k, which this._version of engine e has let go of,
\* settles and the calls that await it resume, one after the other; on a
\* failure the catch block empties this._version, whatever it holds.
OrphanSettles(e, k, replies) ==
  LET awaiting(c) ==
        ecall[c].pc = "awaitVersion" /\ ecall[c].eng = e /\ ecall[c].awaits = k
  IN /\ k # 0
     /\ \E c \in DOMAIN ecall : awaiting(c)
     /\ version[e].st # "failed"
     /\ \E settled \in {Ok(r) : r \in replies} \cup {Fail(x) : x \in TransportErrors} :
          LET clear == GetVersionAwaited(settled).clear
              others == IF clear THEN LetGo(e) ELSE ecall
          IN /\ ecall' = [c \in DOMAIN ecall |->
                            IF awaiting(c)
                            THEN [EngineAfterVersion(ecall[c], settled)
                                    EXCEPT !.awaits = 0]
                            ELSE others[c]]
             /\ version' = IF clear THEN [version EXCEPT ![e] = VersionNull]
                           ELSE version
     /\ UNCHANGED networkCode
     /\ UNCHANGED ledgerVars

\* The caller takes the result of its finished call: the job that hands it
\* over is queued behind the calls that await a settled promise.
EngineReturnInOrder(c) ==
  /\ \A d \in DOMAIN ecall : ~AwaitsSettled(d)
  /\ EngineReturn(c)

OverlapPayload == [NoData EXCEPT !.dataBuffer = <<17>>, !.dataType = 4, !.dataVersion = 1]

CallOverlap(c) ==
  \/ EngineCall(c, 1, "getVersion", NoArgs)
  \/ EngineCall(c, 1, "signTransaction",
                [NoArgs EXCEPT !.path = ADDRESS_PREFIX \o <<"0", "'">>,
                               !.sData = OverlapPayload])

\* One engine, constructed on an open transport, and no call running.
InitOverlap ==
  /\ version = [e \in EngIds |-> VersionNull]
  /\ networkCode = [e \in EngIds |-> MAIN_NET_CODE]
  /\ ecall = [c \in OverlapCalls |-> IdleCall]
  /\ options = [networkCode |-> MAIN_NET_CODE, exchangeTimeout |-> Undefined]
  /\ ready = TRUE
  /\ dccLibPromise = 1
  /\ initTransportPromise = 1
  /\ lastError = <<>>
  /\ transport = [t \in EngIds |-> IF t = 1 THEN OpenTransport ELSE NoTransport]
  /\ conn = [k \in ConnIds |-> IdleConn]
  /\ lcall = [u \in Users |-> IdleLedgerCall]

NextOverlap ==
  \/ \E c \in OverlapCalls : CallOverlap(c)
  \/ VersionSettles(1, OverlapVersionReplies)
  \/ VersionContinuations(1)
  \/ \E c \in OverlapCalls : LateContinuation(c)
  \/ \E k \in OverlapCalls : OrphanSettles(1, k, OverlapVersionReplies)
  \/ \E c \in OverlapCalls : VersionResume(c)
  \/ \E c \in OverlapCalls : DeviceChunkReply(c, OverlapChunkReplies)
  \/ \E c \in OverlapCalls : EngineReturnInOrder(c)

SpecOverlap == InitOverlap /\ [][NextOverlap]_vars

\* Calls that overlap on a query share it: a call that found the query in
\* flight has sent none of its own.
OverlappingCallsShareQuery ==
  \A c \in DOMAIN ecall : ecall[c].entry = "pending" => VersionQueriesOf(c) = 0

\* When the calls that awaited a failed query resume, each of them ends
\* with an error and this._version is left empty.
SharedFailureFailsAll ==
  \A e \in EngIds :
    version[e].st = "failed" /\ version'[e].st # "failed" =>
      /\ version'[e].st = "null"
      /\ \A c \in DOMAIN ecall :
           AwaitsCache(c, e) => ecall'[c].pc = "done" /\ ~ecall'[c].out.ok

\* No step empties this._version while the query it holds is in flight.
QueryInFlightNotCleared ==
  \A e \in EngIds : version[e].st = "pending" => version'[e].st # "null"

\* C32: getVersion calls that overlap on one engine share one version query;
\* if that query fails every one of them fails and this._version ends up
\* empty; and a query started after the failure is never cleared by the
\* failure handling of an older call.
C32_OverlappingCallsShareQueryAndFailure ==
  /\ []OverlappingCallsShareQuery
  /\ [][SharedFailureFailsAll]_vars
  /\ [][QueryInFlightNotCleared]_vars

(***************************************************************************)
(* SpecEmpty: one caller hands empty and non-empty data buffers to the     *)
(* five signing methods and to _signData.                                  *)
(***************************************************************************)
EmptyPayloads ==
  { [NoData EXCEPT !.dataBuffer = data, !.dataType = dataType, !.dataVersion = 1,
                   !.feePrecision = fp] :
      data \in {<<>>, <<10>>}, dataType \in {4, 300}, fp \in {Undefined, Some(256)} }
EmptyVersionReplies == { <<1, 2, 0, 144, 0>>, <<1, 0, 0, 144, 0>>, <<105, 133>> }

CallSignMaybeEmpty(c) ==
  \E op \in SignOps, sData \in EmptyPayloads :
    EngineCall(c, 1, op, [NoArgs EXCEPT !.path = ADDRESS_PREFIX \o <<"0", "'">>,
                                        !.sData = sData])

CallSignDataMaybeEmpty(c) ==
  \E data \in {<<>>, <<10>>} :
    EngineCall(c, 1, "_signData",
               [NoArgs EXCEPT !.sData = [NoData EXCEPT !.dataBuffer = data]])

NextEmpty ==
  \/ CallSignMaybeEmpty(1)
  \/ CallSignDataMaybeEmpty(1)
  \/ DeviceVersionReply(1, EmptyVersionReplies)
  \/ VersionResume(1)
  \/ DeviceChunkReply(1, StampChunkReplies)
  \/ EngineReturn(1)

SpecEmpty == InitEngine /\ [][NextEmpty]_vars

\* Call c was handed an empty data buffer.
GivenEmpty(c) == Len(ecall[c].given.dataBuffer) = 0

\* Call c has failed with this message and has sent nothing.
FailedUnsent(c, message) ==
  /\ ecall[c].pc = "done"
  /\ ecall[c].out = Fail(MkError("Error", message, NoCause))
  /\ ecall[c].sent = <<>>

\* C33: a signing call with an empty data buffer has failed with 'dataBuffer
\* must not be empty' and has sent neither a version query nor a chunk, and
\* _signData with an empty payload has failed with 'Cannot sign empty data
\* payload' and has sent nothing; the step that starts such a call leaves
\* this._version as it was.
C33_EmptyBufferFailsBeforeAnyExchange ==
  /\ [](\A c \in Calls :
          /\ ecall[c].op \in SignOps /\ GivenEmpty(c) =>
               FailedUnsent(c, "dataBuffer must not be empty")
          /\ ecall[c].op = "_signData" /\ GivenEmpty(c) =>
               FailedUnsent(c, "Cannot sign empty data payload"))
  /\ [][\A c \in Calls :
          ecall[c].pc = "idle" /\ ecall'[c].pc # "idle" /\ Len(ecall'[c].given.dataBuffer) = 0
            => version' = version]_vars

\* signMessage with an empty buffer and a fee precision of 256 has failed on
\* the empty buffer, with no version asked for.
C33_Witness ==
  /\ ecall[1].op = "signMessage"
  /\ GivenEmpty(1)
  /\ ecall[1].given.feePrecision = Some(256)
  /\ ecall[1].pc = "done"
  /\ ecall[1].out.err[1].message = "dataBuffer must not be empty"
  /\ ecall[1].sent = <<>>
  /\ version[1].st = "null"

(***************************************************************************)
(* Claims about the ready flag                                             *)
(***************************************************************************)
\* A session is present: a transport and an engine are cached, the transport
\* has opened and close() has not been invoked on it.
SessionPresent ==
  /\ initTransportPromise # 0
  /\ dccLibPromise # 0
  /\ transport[dccLibPromise].st = "open"
  /\ transport[dccLibPromise].close = "no"

\* C34: whenever ready is true a session is present; ready is false when
\* disconnect() returns and when a tryConnect() call fails.
C34_ReadyImpliesSession ==
  /\ [](ready => SessionPresent)
  /\ [][\A k \in ConnIds : DisconnectReturns(k) => ~ready']_vars
  /\ [][\A k \in ConnIds : ConnectRejects(k) => ~ready']_vars

(***************************************************************************)
(* Claims about the reconnect after a failure                              *)
(***************************************************************************)
\* In this step the operation of caller u runs a catch block although the
\* catch block of the getUserDataById call it made has already started a
\* reconnect for the same error.
SecondCatchOfFailure(u) ==
  /\ lcall[u].pc = "catchOuter"
  /\ lcall'[u] # lcall[u]

\* C35: one failure of a public operation starts one reconnect: the
\* operation that fails through the getUserDataById call it made starts no
\* second reconnect for the error that call has already started one for, so
\* one failure asks the factory for at most one transport and no two
\* reconnects of one failure run side by side.
C35_OneReconnectPerFailure ==
  [][\A u \in Users :
       SecondCatchOfFailure(u) => ~BackgroundReconnectScheduled]_vars

(***************************************************************************)
(* SpecSession: one DCCLedger whose callers sign, connect and disconnect,  *)
(* the device behind each transport running a firmware of its own.         *)
(***************************************************************************)
\* The answer of the device behind transport t to the version query: 1.0.0
\* behind the first transport, 1.1.0 behind the second, 1.2.0 behind the third.
DeviceVersion(t) == <<1, t - 1, 0, 144, 0>>

SessionOps == LedgerSignOps \cup {"tryConnect", "disconnect"}

NextSession ==
  \/ \E u \in Users, op \in SessionOps, args \in LedgerArgs :
       LedgerCall(u, op, args)
  \/ \E u \in Users : LedgerConnAwaited(u)
  \/ \E u \in Users : GetTransportAwaited(u)
  \/ \E u \in Users : GetTransportReconnected(u)
  \/ \E u \in Users : GetTransportReturned(u)
  \/ \E u \in Users : EngineSettled(u)
  \/ \E u \in Users : LedgerReturn(u)
  \/ \E k \in ConnIds : DisconnectAwaited(k)
  \/ \E k \in ConnIds : DisconnectClosed(k)
  \/ \E k \in ConnIds : ConnectInit(k)
  \/ \E k \in ConnIds : ConnectSettled(k)
  \/ \E t \in EngIds : TransportOpens(t)
  \/ \E t \in EngIds : TransportFails(t)
  \/ \E u \in Users : DeviceChunkReply(u, LedgerChunkReplies)
  \/ \E e \in EngIds : DeviceVersionReply(e, {DeviceVersion(e), <<105, 133>>})
  \/ \E u \in Users : VersionResume(u)

SpecSession == Init /\ [][NextSession]_vars

\* In this step the engine of transport t is constructed.
EngineConstructed(t) == transport[t].st = "pending" /\ transport'[t].st = "open"

\* In this step caller c starts a signing method on an engine with an empty
\* version cache and gets past the check of the data buffer.
SignStartsOnEmptyCache(c) ==
  /\ ecall[c].pc = "idle"
  /\ ecall'[c].op \in SignOps
  /\ ecall'[c].pc # "done"
  /\ version[ecall'[c].eng].st = "null"

\* Caller c has handed a chunk of a signing payload to its transport.
SignPayloadSent(c) == ecall[c].op \in SignOps /\ ecall[c].sendBytes > 0

\* The payload of caller c is laid out for the firmware of the device behind
\* the transport of its engine.
LayoutOfOwnTransport(c) ==
  LET appVersion == SliceDropLast(DeviceVersion(ecall[c].eng), 2)
  IN ecall[c].dataBuffer =
       FillDataForSignLayout(appVersion, ecall[c].path, ecall[c].sData).val

\* C36: every engine is constructed with an empty version cache; a signing
\* method that starts on an empty cache sends a version query on the
\* transport of its engine; the version an engine has cached is the answer
\* of the device behind its own transport, and a signing payload handed to
\* a transport is laid out for the version read over that transport.
C36_VersionNeverSurvivesSession ==
  /\ [][\A t \in EngIds : EngineConstructed(t) => version'[t] = VersionNull]_vars
  /\ [][\A c \in Calls :
          SignStartsOnEmptyCache(c) =>
            /\ ecall'[c].sent = <<Apdu(6, 0, 0, <<>>)>>
            /\ version'[ecall'[c].eng].st = "pending"]_vars
  /\ [](\A e \in EngIds :
          version[e].st = "resolved" => version[e].val = DeviceVersion(e))
  /\ [](\A c \in Calls : SignPayloadSent(c) => LayoutOfOwnTransport(c))

\* A signing payload goes to the second transport, laid out for the firmware
\* behind it, while the engine of the first transport still holds the version
\* it had cached.
C36_Witness ==
  \E c \in Calls :
    /\ SignPayloadSent(c)
    /\ ecall[c].eng = 2
    /\ version[1] = VersionResolved(DeviceVersion(1))
    /\ version[2] = VersionResolved(DeviceVersion(2))
    /\ LayoutOfOwnTransport(c)
    /\ ~(ecall[c].dataBuffer =
           FillDataForSignLayout(<<1, 0, 0>>, ecall[c].path, ecall[c].sData).val)

(***************************************************************************)
(* Claims about answers shorter than a status word                         *)
(***************************************************************************)
\* The answer is at least two bytes long and ends with 0x90, 0x00.
EndsWithOkStatus(answer) ==
  /\ Len(answer) >= 2
  /\ answer[Len(answer) - 1] = 144
  /\ answer[Len(answer)] = 0

\* The call of caller c has failed with the error of a status word.
FailedWithStatusError(c) ==
  /\ ecall[c].pc = "done"
  /\ ~ecall[c].out.ok
  /\ \E high \in 0..255 :
       LET isError == checkError(<<high, 0>>)
       IN isError # <<>> /\ ecall[c].out = Fail(StatusError(isError[1]))

\* C37: the answer behind a version getVersion has returned, every answer
\* to a signing chunk after which the loop went on, and the last answer of
\* a signing call that returned a signature, is at least two bytes long
\* and ends with 0x90, 0x00; a version answer shorter than two bytes is never
\* kept as the version, and a signing call that got an answer shorter than
\* two bytes has failed with a status error.
C37_SuccessNeedsTwoByteOkStatus ==
  \A c \in Calls :
    LET acks == ecall[c].acks
        cache == version[ecall[c].eng]
    IN ecall[c].pc # "idle" =>
         /\ cache.st = "resolved" => EndsWithOkStatus(cache.val)
         /\ \A k \in 1..Len(acks) :
              /\ (k < Len(acks) \/ (ecall[c].pc = "done" /\ ecall[c].out.ok))
                   => EndsWithOkStatus(acks[k])
              /\ Len(acks[k]) < 2 => FailedWithStatusError(c)

(***************************************************************************)
(* SpecTurns: one DCCLedger whose callers take turns: an operation is      *)
(* called when every operation called before has ended; the reconnects in  *)
(* the background run on in between.                                       *)
(***************************************************************************)
\* No caller has an operation running.
CallersIdle == \A u \in Users : lcall[u].pc = "idle"

\* A continuation of the operation of caller u.
OperationStep(u) ==
  \/ LedgerConnAwaited(u)
  \/ ProbeConnected(u)
  \/ GetTransportAwaited(u)
  \/ GetTransportReconnected(u)
  \/ GetTransportReturned(u)
  \/ EngineSettled(u)
  \/ OuterCatch(u)
  \/ VersionResume(u)

\* A continuation of tryConnect() or disconnect() call k.
ConnectStep(k) ==
  \/ DisconnectAwaited(k)
  \/ DisconnectClosed(k)
  \/ ConnectInit(k)
  \/ ConnectSettled(k)

NextTurns ==
  \/ /\ CallersIdle
     /\ \E u \in Users, op \in LedgerOps \ {"getPaginationUsersData"}, args \in LedgerArgs :
          LedgerCall(u, op, args)
  \/ /\ CallersIdle
     /\ \E u \in Users, args \in PaginationArgs :
          LedgerCall(u, "getPaginationUsersData", args)
  \/ \E u \in Users : OperationStep(u)
  \/ \E u \in Users : LedgerReturn(u)
  \/ \E k \in ConnIds : ConnectStep(k)
  \/ \E t \in EngIds : TransportOpens(t)
  \/ \E t \in EngIds : TransportFails(t)
  \/ \E u \in Users : DeviceKeyReply(u, LedgerKeyReplies)
  \/ \E u \in Users : DeviceChunkReply(u, LedgerChunkReplies)
  \/ \E e \in EngIds : DeviceVersionReply(e, LedgerVersionReplies)

SpecTurns == Init /\ [][NextTurns]_vars

(***************************************************************************)
(* Claims about exchanges and close()                                      *)
(***************************************************************************)
\* In this step caller c hands an exchange to the transport of its engine.
ExchangeSent(c) == Len(ecall'[c].sent) > Len(ecall[c].sent)

\* In this step close() is invoked on transport t.
CloseInvoked(t) ==
  \E k \in ConnIds :
    /\ conn[k].pc = "discAwaitTp"
    /\ conn'[k].pc = "discClose"
    /\ conn[k].tp = t

\* C38: with the operations of the callers invoked one at a time and the
\* background reconnects running in between (SpecTurns), an exchange is handed to a
\* transport only while close() has not been invoked on it, close() is
\* invoked only on a transport it has not been invoked on before, and no two
\* disconnect() calls hold the same transport to close.
C38_NoExchangeAfterClose ==
  /\ [][\A c \in Calls :
          ExchangeSent(c) => transport[ecall'[c].eng].close = "no"]_vars
  /\ [][\A t \in EngIds : CloseInvoked(t) => transport[t].close = "no"]_vars
  /\ [](\A j, k \in ConnIds :
          (j # k /\ conn[j].tp # 0) => conn[j].tp # conn[k].tp)

\* An operation has an exchange in flight on the second transport after the
\* first transport was closed by a reconnect.
C38_Witness ==
  \E c \in Calls :
    /\ ecall[c].pc \in {"awaitChunk", "awaitKey", "awaitVersion"}
    /\ ecall[c].sent # <<>>
    /\ ecall[c].eng = 2
    /\ transport[1].close = "done"
    /\ transport[2].close = "no"

(***************************************************************************)
(* Claims about the last error                                             *)
(***************************************************************************)
\* In this step probeDevice() starts for caller u.
ProbeStarts(u) == lcall[u].pc = "idle" /\ lcall'[u].op = "probeDevice"

\* In this step an operation of caller u ends without an error; probeDevice
\* aside, which ends with true or false.
OpSucceeds(u) ==
  /\ lcall[u].pc # "done"
  /\ lcall'[u].pc = "done"
  /\ lcall'[u].op # "probeDevice"
  /\ lcall'[u].out.ok

\* C39: the last error changes only in a step of an operation that meets a
\* failure in its try block, and is that failure then, or in the step that
\* starts probeDevice(), and is null then; the step that ends a successful
\* operation, tryConnect() and disconnect() among them, and every step of a
\* background reconnect, whether it connects or fails, leave it as it is.
C39_LastErrorChangesOnFailureOrProbe ==
  /\ [][lastError' # lastError =>
          \E u \in Users :
            /\ lcall'[u] # lcall[u]
            /\ \/ ProbeStarts(u) /\ lastError' = <<>>
               \/ ProbeFailure(u) # <<>> /\ lastError' = ProbeFailure(u)]_vars
  /\ [][\A u \in Users : OpSucceeds(u) => lastError' = lastError]_vars
  /\ [][lcall' = lcall => lastError' = lastError]_vars

\* getVersion has succeeded on the second transport, which the background
\* reconnect of an earlier failure opened: the last error is still the
\* status error of that failure.
C39_Witness ==
  /\ lcall[1].op = "getVersion"
  /\ lcall[1].pc = "done"
  /\ lcall[1].out.ok
  /\ ecall[1].eng = 2 \/ version[2].st = "resolved"
  /\ lastError = <<StatusError([error |-> "Conditions not satisfied",
                                status |-> 27013])>>
  /\ \E k \in ConnIds : IsBackground(k) /\ conn[k].pc = "done" /\ conn[k].out.ok

(***************************************************************************)
(* SpecRecovery: one DCCLedger whose callers take turns and whose factory  *)
(* and device stop failing once an operation has failed; every             *)
(* continuation that can run does run.                                     *)
(***************************************************************************)
\* An operation has failed inside its try block: its catch has started a
\* background reconnect.
OperationHasFailed == \E k \in ConnIds : IsBackground(k)

\* The device answers the key request caller c awaits, with status OK.
DeviceKeyAnswers(c, reply) ==
  /\ ecall[c].pc = "awaitKey"
  /\ ecall' = [ecall EXCEPT ![c] = GetWalletPublicKeyResume(ecall[c], Ok(reply))]
  /\ UNCHANGED <<version, networkCode>>
  /\ UNCHANGED ledgerVars

\* The device answers the signing chunk caller c awaits, with status OK.
DeviceChunkAnswers(c, reply) ==
  /\ ecall[c].pc = "awaitChunk"
  /\ ecall' = [ecall EXCEPT ![c] =
                 SignDataResume(ecall[c], networkCode[ecall[c].eng], Ok(reply))]
  /\ UNCHANGED <<version, networkCode>>
  /\ UNCHANGED ledgerVars

\* The device answers the version query of engine e, with status OK.
DeviceVersionAnswers(e, reply) ==
  /\ version[e].st = "pending"
  /\ version' = [version EXCEPT ![e] = VersionResolved(reply)]
  /\ UNCHANGED <<networkCode, ecall>>
  /\ UNCHANGED ledgerVars

KeyAnswerOk == CHOOSE r \in LedgerKeyReplies : Len(r) = 69
VersionAnswerOk == <<1, 2, 0, 144, 0>>
ChunkAnswerOk == <<7, 9, 144, 0>>

\* The device answers the exchange caller u awaits with status OK.
DeviceAnswers(u) ==
  \/ DeviceKeyAnswers(u, KeyAnswerOk)
  \/ DeviceChunkAnswers(u, ChunkAnswerOk)
  \/ /\ ecall[u].pc = "awaitVersion"
     /\ DeviceVersionAnswers(ecall[u].eng, VersionAnswerOk)

\* Before the failure the factory may reject and the device may refuse.
EnvironmentFails ==
  /\ ~OperationHasFailed
  /\ \/ \E t \in EngIds : TransportFails(t)
     \/ \E u \in Users : DeviceKeyReply(u, LedgerKeyReplies)
     \/ \E u \in Users : DeviceChunkReply(u, LedgerChunkReplies)
     \/ \E e \in EngIds : DeviceVersionReply(e, LedgerVersionReplies)

NextRecovery ==
  \/ /\ CallersIdle
     /\ \E u \in Users, op \in LedgerOps \ {"getPaginationUsersData"}, args \in LedgerArgs :
          LedgerCall(u, op, args)
  \/ /\ CallersIdle
     /\ \E u \in Users, args \in PaginationArgs :
          LedgerCall(u, "getPaginationUsersData", args)
  \/ \E u \in Users : OperationStep(u)
  \/ \E u \in Users : LedgerReturn(u)
  \/ \E k \in ConnIds : ConnectStep(k)
  \/ \E t \in EngIds : TransportOpens(t)
  \/ \E u \in Users : DeviceAnswers(u)
  \/ EnvironmentFails

\* The continuations of caller u that start or resume a call of the engine,
\* and the answer of the device to the exchange it awaits.
EngineStep(u) ==
  \/ GetTransportAwaited(u)
  \/ GetTransportReturned(u)
  \/ VersionResume(u)
  \/ DeviceAnswers(u)

\* The other continuations of caller u.
SessionStep(u) ==
  \/ LedgerConnAwaited(u)
  \/ ProbeConnected(u)
  \/ GetTransportReconnected(u)
  \/ EngineSettled(u)
  \/ OuterCatch(u)

\* The awaited _dccLibPromise of caller u has settled and the continuation
\* of getTransport can run: it enters the engine, or its catch starts a
\* connect.
EngineStartReady(u) ==
  LET call == lcall[u]
  IN /\ call.pc \in {"gtAwaitLib", "gtAwaitLib2"}
     /\ TransportSettled(call.lib)
     /\ IF transport[call.lib].st = "open"
        THEN IF InnerOp(call) = "getUserDataById" /\ ~getPathById(call.id).ok
             THEN FreeConn # 0
             ELSE ecall[u].pc = "idle"
        ELSE FreeConn # 0

\* The enabling condition of EngineStep(u), written out.
EngineStepReady(u) ==
  \/ EngineStartReady(u)
  \/ /\ ecall[u].pc = "awaitVersion"
     /\ \/ ecall[u].awaits = 0 /\ version[ecall[u].eng].st = "resolved"
        \/ version[ecall[u].eng].st = "pending"
  \/ ecall[u].pc \in {"awaitKey", "awaitChunk"}

\* The event loop runs every continuation that is ready, the factory settles
\* every create() and the device answers every exchange.  The fairness of
\* EngineStep(u) is WF_vars(EngineStep(u)) with its enabling condition
\* written out as EngineStepReady(u).
FairRecovery ==
  /\ \A u \in Users : WF_vars(SessionStep(u))
  /\ \A u \in Users : []<>(~EngineStepReady(u)) \/ []<><<EngineStep(u)>>_vars
  /\ WF_vars((\E k \in ConnIds : ConnectStep(k)) \/ (\E t \in EngIds : TransportOpens(t)))

SpecRecovery == Init /\ [][NextRecovery]_vars /\ FairRecovery

\* Caller u has an operation running that has met no failure.
OperationRunning(u) == lcall[u].pc \notin {"idle", "done", "catchOuter"}

\* The operation of caller u has completed successfully.
OperationSucceeded(u) ==
  /\ lcall[u].pc = "done"
  /\ lcall[u].out.ok
  /\ lcall[u].op = "probeDevice" => lcall[u].out.val = TRUE

\* The arguments of the operation of caller u are in range: the account
\* index, or every index of the range of getPaginationUsersData.
ValidArguments(u) ==
  LET call == lcall[u]
  IN IF call.op = "getPaginationUsersData"
     THEN /\ PaginationRangeError(call.from, call.limit) = <<>>
          /\ call.from.kind = "int" /\ call.limit.kind = "int"
          /\ call.from.val - 1 <= 2147483647 - call.limit.val
     ELSE IF call.op \in LedgerSignOps \cup {"getUserDataById"}
     THEN getPathById(call.id).ok
     ELSE TRUE

\* In this step an inline connect of getTransport starts.
InlineConnectScheduled ==
  \E k \in ConnIds : conn[k].kind = "none" /\ conn'[k].origin = "inline"

\* getTransport of caller u, its inline connect settled, goes on or throws:
\* it starts no second inline connect.
NoSecondInlineConnect(u) ==
  (lcall[u].pc = "gtAwaitConnect" /\ lcall'[u] # lcall[u]) => ~InlineConnectScheduled

====
